---- MODULE Spec2Model ----
(***************************************************************************)
(* A model of hererocks (src/hererocks.py): version resolution, identity   *)
(* fingerprints, the install manifest, the build cache, the patch engine   *)
(* and the per-package install pipeline driven by main().                  *)
(*                                                                         *)
(* Python strings are modelled as sequences of one-character strings, so   *)
(* that escaping, joining, partitioning and prefix tests are computed the  *)
(* way the code computes them.  "5.1" is <<"5", ".", "1">>.                *)
(***************************************************************************)
EXTENDS Integers, Sequences, FiniteSets, TLC

VARIABLES
    rProgram,   \* resolver: the Program subclass being constructed
    rVersion,   \* resolver: the raw version string given on the command line
    rPaths,     \* resolver: the paths that exist on the file system
    rSelf,      \* resolver: the fields Program.__init__ has set (or NotConstructed)
    pFiles,     \* patch engine: the files of the working directory, name -> content
    pFiles0,    \* patch engine: the files as they were before Patch.apply
    pPatch,     \* patch engine: the Patch object, a sequence of FilePatch
    pResult,    \* patch engine: what Patch.apply returned (or NotApplied)
    iProgram,   \* identity: the program requested, RioLua or LuaJIT
    iVersion,   \* identity: the release requested
    iCl,        \* identity: version and architecture told by cl.exe
    iOpts,      \* identity: the options of two requests
    iIds,       \* identity: the identifiers and hash of each request (or <<>>)
    iReload,    \* identity: identifiers saved to a manifest and loaded again
    manifest,   \* disk: the manifest file of each install location
    buildCache, \* disk: the build cache, directory name -> built tree
    installed,  \* disk: what is installed in each location, slot -> tree
    nruns,      \* the number of runs of hererocks started so far
    pc,         \* run: the block of main() to execute next ("idle": no run)
    cmdline,    \* run: the parsed command line
    allIdentifiers, \* run: the dict loaded by get_installed_identifiers
    status,     \* run: "running", or how the run ended
    progs,      \* run: for each package name, what its block of main() did
    startManifest, \* run: the manifest file as it was when the run started
    prev,       \* the options, status and blocks of the run before
    startDisk,  \* run: the install location and the build cache at the start
    manifestIO, \* run: how often the manifest file was read and written
    tempDir,    \* run, disk: the scratch directory of the run
    built,      \* the identifiers compiled with a build cache, and in which run
    cProgram,   \* clone: the Program subclass whose repository is fetched
    cRepo,      \* clone: self.repo
    cRef,       \* clone: the reference asked for
    cEnv,       \* clone: the options, the downloads cache and what git tells
    cRun,       \* clone: what fetch_repo did (or NotFetched)
    fProgram,   \* fetch: the Program subclass whose sources are fetched
    fSelf,      \* fetch: the fields of the program fetch reads
    fOpts,      \* fetch: opts.downloads and opts.ignore_checksums
    fDir,       \* fetch, disk: the downloads cache, file name -> contents
    fNet,       \* fetch: what the mirrors do, URL -> outcome
    fRun,       \* fetch: what fetch and the build after it did (or NotStarted)
    fPast,      \* fetch: the runs that ended before this one, oldest first
    cmdCall,    \* run(): the arguments of the call and what the command does
    cmdRun,     \* run(): how the call ended (or NotCalled)
    kProgram,   \* compat: the interpreter constructed, RioLua or LuaJIT
    kVersion,   \* compat: the release requested
    kOpts,      \* compat: the options, --compat among them
    kSelf,      \* compat: what Lua.__init__ has set (or NotSet)
    nRoot,      \* install, disk: which install wrote bin/, include/ and lib/
    nManifest,  \* install, disk: the dict in the manifest file
    nRun,       \* install: the runs so far and how the last one ended
    xManifest,  \* overlap, disk: the dict in the manifest file
    xCache,     \* overlap, disk: the directory names in the build cache
    xProc       \* overlap: each of the two runs, its position and its memory

resolveVars == <<rProgram, rVersion, rPaths, rSelf>>
patchVars == <<pFiles, pFiles0, pPatch, pResult>>
identityVars == <<iProgram, iVersion, iCl, iOpts, iIds, iReload>>
diskVars == <<manifest, buildCache, installed>>
runVars == <<nruns, pc, cmdline, allIdentifiers, status, progs, startManifest, prev, built,
             startDisk, manifestIO, tempDir>>
mainVars == <<diskVars, runVars>>
cloneVars == <<cProgram, cRepo, cRef, cEnv, cRun>>
fetchVars == <<fProgram, fSelf, fOpts, fDir, fNet, fRun, fPast>>
commandVars == <<cmdCall, cmdRun>>
compatVars == <<kProgram, kVersion, kOpts, kSelf>>
installVars == <<nRoot, nManifest, nRun>>
overlapVars == <<xManifest, xCache, xProc>>
sideVars == <<installVars, overlapVars>>
auxVars == <<commandVars, compatVars, sideVars>>
acquireVars == <<cloneVars, fetchVars, auxVars>>
vars == <<resolveVars, patchVars, identityVars, mainVars, acquireVars>>

-----------------------------------------------------------------------------
(* Strings *)

\* Python's None, kept apart from every string (no string has this element).
None == <<"<None>">>

\* The characters the regular expression class \w matches.
WordChars ==
    {"a","b","c","d","e","f","g","h","i","j","k","l","m",
     "n","o","p","q","r","s","t","u","v","w","x","y","z",
     "A","B","C","D","E","F","G","H","I","J","K","L","M",
     "N","O","P","Q","R","S","T","U","V","W","X","Y","Z",
     "0","1","2","3","4","5","6","7","8","9","_"}

\* c in s
Contains(s, c) == \E i \in 1..Len(s) : s[i] = c

\* The index of the first occurrence of c in s (0 when there is none).
FirstIndex(s, c) ==
    IF Contains(s, c)
    THEN CHOOSE i \in 1..Len(s) : s[i] = c /\ \A j \in 1..(i - 1) : s[j] # c
    ELSE 0

\* s.startswith(p)
StartsWith(s, p) == Len(p) <= Len(s) /\ SubSeq(s, 1, Len(p)) = p

\* s.partition(c): (head, sep, tail) split at the first c; (s, "", "") without c.
partition(s, c) ==
    LET i == FirstIndex(s, c)
    IN  IF i = 0 THEN <<s, <<>>, <<>>>>
        ELSE <<SubSeq(s, 1, i - 1), <<c>>, SubSeq(s, i + 1, Len(s))>>

\* d.get(k, default) for a dict modelled as a function
Get(d, k, default) == IF k \in DOMAIN d THEN d[k] ELSE default

\* F of the value of e: as in a Python call, the argument is evaluated once,
\* before the body that uses it.
With(e, F(_)) == CHOOSE r \in {F(x) : x \in {e}} : TRUE

-----------------------------------------------------------------------------
(* Version tables of the three programs *)

Programs == {"RioLua", "LuaJIT", "LuaRocks"}

RioLua_versions ==
    {<<"5",".","1">>, <<"5",".","1",".","1">>, <<"5",".","1",".","2">>,
     <<"5",".","1",".","3">>, <<"5",".","1",".","4">>, <<"5",".","1",".","5">>,
     <<"5",".","2",".","0">>, <<"5",".","2",".","1">>, <<"5",".","2",".","2">>,
     <<"5",".","2",".","3">>, <<"5",".","2",".","4">>, <<"5",".","3",".","0">>,
     <<"5",".","3",".","1">>, <<"5",".","3",".","2">>, <<"5",".","3",".","3">>,
     <<"5",".","3",".","4">>}

RioLua_translations ==
    (<<"5">> :> <<"5",".","3",".","4">> @@
     <<"5",".","1">> :> <<"5",".","1",".","5">> @@
     <<"5",".","1",".","0">> :> <<"5",".","1">> @@
     <<"5",".","2">> :> <<"5",".","2",".","4">> @@
     <<"5",".","3">> :> <<"5",".","3",".","4">> @@
     <<"^">> :> <<"5",".","3",".","4">> @@
     <<"l","a","t","e","s","t">> :> <<"5",".","3",".","4">>)

LuaJIT_versions ==
    {<<"2",".","0",".","0">>, <<"2",".","0",".","1">>,
     <<"2",".","0",".","2">>, <<"2",".","0",".","3">>,
     <<"2",".","0",".","4">>, <<"2",".","0",".","5">>,
     <<"2",".","1",".","0","-","b","e","t","a","1">>,
     <<"2",".","1",".","0","-","b","e","t","a","2">>,
     <<"2",".","1",".","0","-","b","e","t","a","3">>}

LuaJIT_translations ==
    (<<"2">> :> <<"2",".","0",".","5">> @@
     <<"2",".","0">> :> <<"2",".","0",".","5">> @@
     <<"2",".","1">> :> <<"2",".","1",".","0","-","b","e","t","a","3">> @@
     <<"^">> :> <<"2",".","0",".","5">> @@
     <<"l","a","t","e","s","t">> :> <<"2",".","0",".","5">>)

LuaRocks_versions ==
    {<<"2",".","0",".","8">>, <<"2",".","0",".","9">>, <<"2",".","0",".","1","0">>,
     <<"2",".","0",".","1","1">>, <<"2",".","0",".","1","2">>, <<"2",".","0",".","1","3">>,
     <<"2",".","1",".","0">>, <<"2",".","1",".","1">>, <<"2",".","1",".","2">>,
     <<"2",".","2",".","0">>, <<"2",".","2",".","1">>, <<"2",".","2",".","2">>,
     <<"2",".","3",".","0">>, <<"2",".","4",".","0">>, <<"2",".","4",".","1">>,
     <<"2",".","4",".","2">>}

LuaRocks_translations ==
    (<<"2">> :> <<"2",".","4",".","2">> @@
     <<"2",".","0">> :> <<"2",".","0",".","1","3">> @@
     <<"2",".","1">> :> <<"2",".","1",".","2">> @@
     <<"2",".","2">> :> <<"2",".","2",".","2">> @@
     <<"2",".","3">> :> <<"2",".","3",".","0">> @@
     <<"2",".","4">> :> <<"2",".","4",".","2">> @@
     <<"3">> :> <<"@","l","u","a","r","o","c","k","s","-","3">> @@
     <<"^">> :> <<"2",".","4",".","2">> @@
     <<"l","a","t","e","s","t">> :> <<"2",".","4",".","2">>)

versions(program) ==
    CASE program = "RioLua" -> RioLua_versions
      [] program = "LuaJIT" -> LuaJIT_versions
      [] program = "LuaRocks" -> LuaRocks_versions

translations(program) ==
    CASE program = "RioLua" -> RioLua_translations
      [] program = "LuaJIT" -> LuaJIT_translations
      [] program = "LuaRocks" -> LuaRocks_translations

\* Program.name: the key of the program in the manifest and in the caches
name(program) ==
    CASE program = "RioLua" -> "lua"
      [] program = "LuaJIT" -> "LuaJIT"
      [] program = "LuaRocks" -> "luarocks"

\* Program.title
title(program) ==
    CASE program = "RioLua" -> <<"L","u","a">>
      [] program = "LuaJIT" -> <<"L","u","a","J","I","T">>
      [] program = "LuaRocks" -> <<"L","u","a","R","o","c","k","s">>

default_repo(program) ==
    CASE program = "RioLua" ->
            <<"h","t","t","p","s",":","/","/","g","i","t","h","u","b",".","c","o","m",
              "/","l","u","a","/","l","u","a">>
      [] program = "LuaJIT" ->
            <<"h","t","t","p","s",":","/","/","g","i","t","h","u","b",".","c","o","m",
              "/","L","u","a","J","I","T","/","L","u","a","J","I","T">>
      [] program = "LuaRocks" ->
            <<"h","t","t","p","s",":","/","/","g","i","t","h","u","b",".","c","o","m",
              "/","l","u","a","r","o","c","k","s","/","l","u","a","r","o","c","k","s">>

master == <<"m","a","s","t","e","r">>
str_git == <<"g","i","t">>

-----------------------------------------------------------------------------
(* Program.__init__: classification of the version string *)

\* A resolver that keeps translating while the result is an alias key.
translate_chained(program, version) ==
    LET v == Get(translations(program), version, version)
    IN  Get(translations(program), v, v)

\* version = self.translations.get(version, version): one look-up, not repeated
translate(program, version) == Get(translations(program), version, version)

\* A constructor that tests for an existing path before it tests for '@'.
Program_init_path_first(program, version, paths) ==
    LET v == Get(translations(program), version, version)
    IN  IF v \in versions(program)
        THEN [source |-> "release", version |-> v, repo |-> None, ref |-> None,
              path |-> None, bad |-> None]
        ELSE IF v \in paths
        THEN [source |-> "local", version |-> None, repo |-> None, ref |-> None,
              path |-> v, bad |-> None]
        ELSE IF Contains(v, "@")
        THEN [source |-> "git", version |-> None, repo |-> default_repo(program),
              ref |-> master, path |-> None, bad |-> None]
        ELSE [source |-> "exit", version |-> None, repo |-> None, ref |-> None,
              path |-> None, bad |-> v]

\* The fields Program.__init__ sets from the version string, before any fetch.
\* source is "release", "git" or "local"; "exit" stands for sys.exit with the
\* message "Error: bad <title> version <version>".
Program_init(program, version, paths) ==
    LET v == translate(program, version)
    IN  IF v \in versions(program)
        THEN [source |-> "release", version |-> v, repo |-> None, ref |-> None,
              path |-> None, bad |-> None]
        ELSE IF Contains(v, "@")
        THEN IF StartsWith(v, <<"@">>)
             THEN [source |-> "git", version |-> None, repo |-> default_repo(program),
                   ref |-> IF Len(v) > 1 THEN SubSeq(v, 2, Len(v)) ELSE master,
                   path |-> None, bad |-> None]
             ELSE [source |-> "git", version |-> None, repo |-> partition(v, "@")[1],
                   ref |-> partition(v, "@")[3], path |-> None, bad |-> None]
        ELSE IF v \notin paths
        THEN [source |-> "exit", version |-> None, repo |-> None, ref |-> None,
              path |-> None, bad |-> v]
        ELSE [source |-> "local", version |-> None, repo |-> None, ref |-> None,
              path |-> v, bad |-> None]

-----------------------------------------------------------------------------
(* Cloning a git repository: git_branch_accepts_tags, git_clone_command and  *)
(* Program.fetch_repo                                                        *)

Digits == <<"0","1","2","3","4","5","6","7","8","9">>
DigitChars == {Digits[i] : i \in 1..10}

\* string.hexdigits
hexdigits == DigitChars \cup {"a","b","c","d","e","f","A","B","C","D","E","F"}

\* int(s) for a string of digits
RECURSIVE int(_)
int(s) ==
    IF s = <<>> THEN 0
    ELSE 10 * int(SubSeq(s, 1, Len(s) - 1))
            + ((CHOOSE k \in 1..10 : Digits[k] = s[Len(s)]) - 1)

\* The index of the last digit of the run of digits that starts at i; i - 1
\* when there is no digit at i.
RECURSIVE digits_end(_, _)
digits_end(s, i) ==
    IF i <= Len(s) /\ s[i] \in DigitChars THEN digits_end(s, i + 1) ELSE i - 1

\* The match of r"(\d+)\.(\d+)\.?(\d*)" that starts at index i of s, if any:
\* digits, a dot, digits, then a dot if there is one, then any digits.
version_match_at(s, i) ==
    LET e1 == digits_end(s, i)
        e2 == digits_end(s, e1 + 2)
        s3 == IF e2 + 1 <= Len(s) /\ s[e2 + 1] = "." THEN e2 + 2 ELSE e2 + 1
        e3 == digits_end(s, s3)
    IN  IF e1 >= i /\ e1 + 1 <= Len(s) /\ s[e1 + 1] = "." /\ e2 >= e1 + 2
        THEN [found |-> TRUE,
              groups |-> <<SubSeq(s, i, e1), SubSeq(s, e1 + 2, e2), SubSeq(s, s3, e3)>>]
        ELSE [found |-> FALSE, groups |-> <<>>]

\* re.search(r"(\d+)\.(\d+)\.?(\d*)", s): the leftmost match
version_search(s) ==
    IF \E i \in 1..Len(s) : version_match_at(s, i).found
    THEN version_match_at(s, CHOOSE i \in 1..Len(s) :
                                /\ version_match_at(s, i).found
                                /\ \A j \in 1..(i - 1) : ~version_match_at(s, j).found)
    ELSE [found |-> FALSE, groups |-> <<>>]

\* (a1, a2, a3) >= (b1, b2, b3) on tuples of integers
tuple_ge(a, b) ==
    \/ a[1] > b[1]
    \/ a[1] = b[1] /\ a[2] > b[2]
    \/ a[1] = b[1] /\ a[2] = b[2] /\ a[3] >= b[3]

\* git_branch_accepts_tags, version_output being the output of 'git --version'
git_branch_accepts_tags(version_output) ==
    LET match == version_search(version_output)
    IN  IF match.found
        THEN tuple_ge(<<int(match.groups[1]), int(match.groups[2]),
                        int(match.groups[3])>>, <<1, 7, 10>>)
        ELSE FALSE

str_http == <<"h","t","t","p",":","/","/">>
str_https == <<"h","t","t","p","s",":","/","/">>

clever_http_git_whitelist ==
    {<<"h","t","t","p",":","/","/","g","i","t","h","u","b",".","c","o","m","/">>,
     <<"h","t","t","p","s",":","/","/","g","i","t","h","u","b",".","c","o","m","/">>,
     <<"h","t","t","p",":","/","/","b","i","t","b","u","c","k","e","t",".","c","o","m","/">>,
     <<"h","t","t","p","s",":","/","/","b","i","t","b","u","c","k","e","t",".","c","o","m","/">>}

str_clone == <<"c","l","o","n","e">>
str_depth == <<"-","-","d","e","p","t","h","=","1">>
str_branch == <<"-","-","b","r","a","n","c","h","=">>

\* The three commands git_clone_command returns
full_clone == <<str_git, str_clone>>
shallow_clone == <<str_git, str_clone, str_depth>>
shallow_clone_of(ref) == <<str_git, str_clone, str_depth, str_branch \o ref>>

\* A clone command chosen by the version of git before the reference is
\* looked at.
git_clone_command_version_first(repo, ref, is_cache, version_output) ==
    IF is_cache
    THEN [command |-> full_clone, need_checkout |-> TRUE]
    ELSE IF (StartsWith(repo, str_http) \/ StartsWith(repo, str_https))
            /\ ~\E prefix \in clever_http_git_whitelist : StartsWith(repo, prefix)
    THEN [command |-> full_clone, need_checkout |-> TRUE]
    ELSE IF git_branch_accepts_tags(version_output)
    THEN [command |-> shallow_clone_of(ref), need_checkout |-> FALSE]
    ELSE IF \A i \in 1..Len(ref) : ref[i] \in hexdigits
    THEN [command |-> full_clone, need_checkout |-> TRUE]
    ELSE [command |-> shallow_clone, need_checkout |-> TRUE]

\* git_clone_command: the command and whether a checkout has to follow.
\* version_output is what 'git --version' prints when it is asked.
git_clone_command(repo, ref, is_cache, version_output) ==
    IF is_cache
    THEN [command |-> full_clone, need_checkout |-> TRUE]
    ELSE IF (StartsWith(repo, str_http) \/ StartsWith(repo, str_https))
            /\ ~\E prefix \in clever_http_git_whitelist : StartsWith(repo, prefix)
    THEN [command |-> full_clone, need_checkout |-> TRUE]
    ELSE IF \A i \in 1..Len(ref) : ref[i] \in hexdigits
    THEN [command |-> full_clone, need_checkout |-> TRUE]
    ELSE IF git_branch_accepts_tags(version_output)
    THEN [command |-> shallow_clone_of(ref), need_checkout |-> FALSE]
    ELSE [command |-> shallow_clone, need_checkout |-> TRUE]

\* A fetch_repo that pulls whether HEAD is a branch or not.
fetch_repo_always_pull(program, repo, ref, env) ==
    LET to_cache == repo = default_repo(program) /\ ~env.no_git_cache
                        /\ env.downloads # None
        clone == git_clone_command(repo, ref, to_cache, env.version_output)
    IN  IF to_cache /\ env.repo_exists
        THEN [fetched |-> FALSE, in_downloads |-> TRUE, command |-> <<>>,
              need_checkout |-> FALSE,
              ran |-> <<"rev-parse">>
                        \o (IF env.ref_known THEN <<>> ELSE <<"fetch">>)
                        \o <<"checkout", "pull">>]
        ELSE [fetched |-> ~to_cache, in_downloads |-> to_cache,
              command |-> clone.command, need_checkout |-> clone.need_checkout,
              ran |-> <<"clone">>
                        \o (IF clone.need_checkout /\ ref # master
                            THEN <<"checkout">> ELSE <<>>)]

\* Program.fetch_repo.  env.repo_exists tells whether the directory of the
\* program exists in the downloads cache, env.ref_known whether 'git rev-parse
\* --verify' finds the reference there and env.on_branch whether HEAD is a
\* branch after the checkout.  Gives self.fetched, where the repository is,
\* the clone command and the git commands run, in order.
fetch_repo(program, repo, ref, env) ==
    LET to_cache == repo = default_repo(program) /\ ~env.no_git_cache
                        /\ env.downloads # None
        clone == git_clone_command(repo, ref, to_cache, env.version_output)
    IN  IF to_cache /\ env.repo_exists
        THEN [fetched |-> FALSE, in_downloads |-> TRUE, command |-> <<>>,
              need_checkout |-> FALSE,
              ran |-> <<"rev-parse">>
                        \o (IF env.ref_known THEN <<>> ELSE <<"fetch">>)
                        \o <<"checkout">>
                        \o (IF env.on_branch THEN <<"pull">> ELSE <<>>)]
        ELSE [fetched |-> ~to_cache, in_downloads |-> to_cache,
              command |-> clone.command, need_checkout |-> clone.need_checkout,
              ran |-> <<"clone">>
                        \o (IF clone.need_checkout /\ ref # master
                            THEN <<"checkout">> ELSE <<>>)]

-----------------------------------------------------------------------------
(* Running a command: run and get_output *)

Whitespace == {" ", "\n", "\t", "\r"}

\* bytes.strip() and str.strip()
RECURSIVE lstrip(_)
lstrip(s) == IF s # <<>> /\ s[1] \in Whitespace THEN lstrip(Tail(s)) ELSE s

RECURSIVE rstrip(_)
rstrip(s) ==
    IF s # <<>> /\ s[Len(s)] \in Whitespace THEN rstrip(SubSeq(s, 1, Len(s) - 1)) ELSE s

strip(s) == rstrip(lstrip(s))

\* A run() that ignores a failure without output whether it captures or not.
run_ignoring_empty(capture, verbose, command) ==
    IF ~command.started
        THEN [end |-> "exit", value |-> <<>>, falsy |-> TRUE, echoed |-> <<>>,
              message |-> "couldn't run"]
        ELSE IF command.returncode # 0
        THEN IF strip(command.output) = <<>>
             THEN [end |-> "returned", value |-> <<>>, falsy |-> TRUE, echoed |-> <<>>,
                   message |-> "none"]
             ELSE [end |-> "exit", value |-> <<>>, falsy |-> TRUE,
                   echoed |-> command.output, message |-> "got exitcode"]
        ELSE [end |-> "returned",
              value |-> IF capture THEN strip(command.output) ELSE <<>>,
              falsy |-> ~capture \/ strip(command.output) = <<>>,
              echoed |-> IF verbose THEN command.output ELSE <<>>,
              message |-> "none"]

\* run(*args, get_output=capture).  With opts.verbose and without capture the
\* command writes to the terminal itself (check_call); otherwise its output is
\* collected (check_output).  end tells whether run returned or called
\* sys.exit, value is the string returned (falsy: the value is "" or False),
\* echoed is what appears on the terminal, message the error of sys.exit.
run(capture, verbose, command) ==
    IF ~command.started
        THEN [end |-> "exit", value |-> <<>>, falsy |-> TRUE, echoed |-> <<>>,
              message |-> "couldn't run"]
        ELSE IF command.returncode # 0
        THEN IF capture /\ strip(command.output) = <<>>
             THEN [end |-> "returned", value |-> <<>>, falsy |-> TRUE, echoed |-> <<>>,
                   message |-> "none"]
             ELSE [end |-> "exit", value |-> <<>>, falsy |-> TRUE,
                   echoed |-> command.output, message |-> "got exitcode"]
        ELSE [end |-> "returned",
              value |-> IF capture THEN strip(command.output) ELSE <<>>,
              falsy |-> ~capture \/ strip(command.output) = <<>>,
              echoed |-> IF verbose THEN command.output ELSE <<>>,
              message |-> "none"]

\* get_output(*args)
get_output(verbose, command) == run(TRUE, verbose, command)

-----------------------------------------------------------------------------
(* Fetching a release: Program.fetch, the mirrors and the pinned checksums   *)

\* Program.name as a string of characters
name_string(program) ==
    CASE program = "RioLua" -> <<"l","u","a">>
      [] program = "LuaJIT" -> <<"L","u","a","J","I","T">>
      [] program = "LuaRocks" -> <<"l","u","a","r","o","c","k","s">>

\* Program.downloads: the base URLs of the mirrors, in the order of the list
downloads(program) ==
    CASE program = "RioLua" ->
            <<<<"h","t","t","p",":","/","/","w","w","w",".","l","u","a",".","o","r","g",
                "/","f","t","p">>,
              <<"h","t","t","p",":","/","/","w","e","b","s","e","r","v","e","r","2",".",
                "t","e","c","g","r","a","f",".","p","u","c","-","r","i","o",".","b","r",
                "/","l","u","a","/","m","i","r","r","o","r","/","f","t","p">>>>
      [] program = "LuaJIT" ->
            <<<<"h","t","t","p","s",":","/","/","g","i","t","h","u","b",".","c","o","m",
                "/","L","u","a","J","I","T","/","L","u","a","J","I","T",
                "/","a","r","c","h","i","v","e">>>>
      [] program = "LuaRocks" ->
            <<<<"h","t","t","p",":","/","/","l","u","a","r","o","c","k","s",".",
                "g","i","t","h","u","b",".","i","o","/","l","u","a","r","o","c","k","s",
                "/","r","e","l","e","a","s","e","s">>>>

\* self.fixed_version: LuaJIT 2.0.1 is fetched as 2.0.1-fixed
fixed_version_same(program, version) == version

fixed_version(program, version) ==
    IF program = "LuaJIT" /\ version = <<"2",".","0",".","1">>
    THEN <<"2",".","0",".","1","-","f","i","x","e","d">>
    ELSE version

\* Program.get_download_name
get_download_name(program, self) ==
    name_string(program) \o <<"-">> \o fixed_version(program, self.version)
        \o (IF self.win32_zip THEN <<"-","w","i","n","3","2">> ELSE <<>>)

\* Program.get_file_name
get_file_name(program, self) ==
    get_download_name(program, self)
        \o (IF self.win32_zip THEN <<".","z","i","p">> ELSE <<".","t","a","r",".","g","z">>)

\* Program.get_download_url and LuaJIT.get_download_url
get_download_url(program, self, base_url) ==
    IF program = "LuaJIT"
    THEN base_url \o <<"/","v">> \o fixed_version(program, self.version)
             \o <<".","t","a","r",".","g","z">>
    ELSE base_url \o <<"/">> \o get_file_name(program, self)

\* hashlib.sha256(contents).hexdigest(): contents with different digests are
\* different contents, and no two contents tried share a digest.
sha256_of_file(contents) == [sha256 |-> contents]

\* The released archive of a file name, and self.checksums: the digest pinned
\* for a file name is that of the released archive.
Released(file_name) == [archive |-> file_name, genuine |-> TRUE]
checksums(file_name) == sha256_of_file(Released(file_name))

NoContents == [archive |-> <<>>, genuine |-> FALSE]

\* One line of what fetch does, with the URL it is about (<<>> when none).
Did(event, url) == [event |-> event, url |-> url]

\* The for loop of Program.fetch over self.downloads, from mirror i on.  net
\* tells for each URL what download() does: it writes the contents it got
\* ("ok"), raises URLError, or raises another exception (a timeout or a reset
\* while the body is read), which nothing catches.
RECURSIVE try_mirrors(_, _, _, _, _, _)
try_mirrors(program, self, base_urls, i, net, log) ==
    IF i > Len(base_urls) THEN [end |-> "exit", contents |-> NoContents, log |-> log]
    ELSE LET url == get_download_url(program, self, base_urls[i])
             tried == Append(log, Did("fetching", url))
         IN  IF net[url].kind = "ok"
             THEN [end |-> "ok", contents |-> net[url].contents, log |-> tried]
             ELSE IF net[url].kind = "URLError"
             THEN try_mirrors(program, self, base_urls, i + 1, net,
                              Append(tried, Did("download failed", url)))
             ELSE [end |-> "crash", contents |-> NoContents, log |-> tried]

\* The end of Program.fetch once the archive is at archive_name: the checksum
\* is verified and the archive is extracted.  A fetch that extracts whatever
\* the checksum says.
verify_and_extract_unchecked(program, self, opts, dir, contents, log) ==
    [exit |-> "none", fetched |-> TRUE, dir |-> dir, extracted |-> contents,
     log |-> log \o <<Did("verifying", <<>>), Did("extract", <<>>)>>]

\* The end of Program.fetch once the archive is at archive_name: the checksum
\* is verified and the archive is extracted.
verify_and_extract(program, self, opts, dir, contents, log) ==
    IF checksums(get_file_name(program, self)) # sha256_of_file(contents)
    THEN IF opts.ignore_checksums
         THEN [exit |-> "none", fetched |-> TRUE, dir |-> dir, extracted |-> contents,
               log |-> log \o <<Did("verifying", <<>>), Did("warning", <<>>),
                                Did("extract", <<>>)>>]
         ELSE [exit |-> "checksum", fetched |-> FALSE, dir |-> dir,
               extracted |-> NoContents,
               log |-> log \o <<Did("verifying", <<>>)>>]
    ELSE [exit |-> "none", fetched |-> TRUE, dir |-> dir, extracted |-> contents,
          log |-> log \o <<Did("verifying", <<>>), Did("extract", <<>>)>>]

\* Program.fetch of a release once the mirrors have been tried: d is what
\* try_mirrors gave.  The archive is written into the downloads cache when one
\* is configured, and into the scratch directory otherwise.
\* A fetch that puts the archive into the downloads cache only once its
\* checksum is right.
fetch_downloaded_verified(program, self, opts, dir, d) ==
    IF d.end = "ok"
    THEN verify_and_extract(program, self, opts,
                            IF opts.downloads # None
                               /\ checksums(get_file_name(program, self))
                                     = sha256_of_file(d.contents)
                            THEN (get_file_name(program, self) :> d.contents) @@ dir
                            ELSE dir,
                            d.contents, d.log)
    ELSE [exit |-> d.end, fetched |-> FALSE, dir |-> dir, extracted |-> NoContents,
          log |-> d.log]

fetch_downloaded(program, self, opts, dir, d) ==
    IF d.end = "ok"
    THEN verify_and_extract(program, self, opts,
                            IF opts.downloads # None
                            THEN (get_file_name(program, self) :> d.contents) @@ dir
                            ELSE dir,
                            d.contents, d.log)
    ELSE [exit |-> d.end, fetched |-> FALSE, dir |-> dir, extracted |-> NoContents,
          log |-> d.log]

\* Program.fetch.  dir is the downloads cache, file name -> contents; net is
\* what the mirrors do.  exit is "none" when fetch returns, "exit" for
\* sys.exit(1), "checksum" for the sys.exit of a mismatch and "crash" for an
\* exception nothing catches.
Program_fetch(program, self, opts, dir, net) ==
    IF self.fetched
    THEN [exit |-> "none", fetched |-> TRUE, dir |-> dir, extracted |-> NoContents,
          log |-> <<>>]
    ELSE IF self.source = "git"
    THEN [exit |-> "none", fetched |-> FALSE, dir |-> dir, extracted |-> NoContents,
          log |-> <<Did("copy", <<>>)>>]
    ELSE IF opts.downloads # None /\ get_file_name(program, self) \in DOMAIN dir
    THEN verify_and_extract(program, self, opts, dir,
                            dir[get_file_name(program, self)],
                            <<Did("cached", <<>>)>>)
    ELSE fetch_downloaded(program, self, opts, dir,
                          try_mirrors(program, self, downloads(program), 1, net, <<>>))

-----------------------------------------------------------------------------
(* The patch engine: LineScanner, Hunk, FilePatch, Patch *)

\* A file's content is a sequence of lines [text, eol]; str.splitlines() keeps
\* the texts and drops the line endings.
splitlines(content) == [i \in 1..Len(content) |-> content[i].text]

\* handler.write("\n".join(self.new_lines)), new_lines ending with "": every
\* line is written with the line ending "\n".
joined(new_lines) == [i \in 1..Len(new_lines) |-> [text |-> new_lines[i], eol |-> "\n"]]

\* No PatchError raised; Patch.apply returning None.
NoError == "ok"

\* The scanning state of one file: LineScanner.line_number, FilePatch.new_lines
\* and the PatchError raised, if any.
Scan(ln, new, err) == [line_number |-> ln, new_lines |-> new, err |-> err]

\* A copy that goes on through the line at start_line.
RECURSIVE copy_until_inclusive(_, _, _)
copy_until_inclusive(old_lines, st, start_line) ==
    IF st.err # NoError \/ ~(st.line_number <= start_line) THEN st
    ELSE IF st.line_number > Len(old_lines)
    THEN Scan(st.line_number, st.new_lines, "source is too short")
    ELSE copy_until_inclusive(old_lines,
                    Scan(st.line_number + 1,
                         Append(st.new_lines, old_lines[st.line_number]), NoError),
                    start_line)

\* The while loop of Hunk.add_new_lines: copy lines through up to start_line.
RECURSIVE copy_until(_, _, _)
copy_until(old_lines, st, start_line) ==
    IF st.err # NoError \/ ~(st.line_number < start_line) THEN st
    ELSE IF st.line_number > Len(old_lines)
    THEN Scan(st.line_number, st.new_lines, "source is too short")
    ELSE copy_until(old_lines,
                    Scan(st.line_number + 1,
                         Append(st.new_lines, old_lines[st.line_number]), NoError),
                    start_line)

\* The for loop of Hunk.add_new_lines over the hunk's lines, from line i on:
\* a ' ' or '-' line consumes a source line and must equal it, a ' ' or '+'
\* line is added to the new lines.
RECURSIVE hunk_lines(_, _, _, _)
hunk_lines(old_lines, st, lines, i) ==
    IF st.err # NoError \/ i > Len(lines) THEN st
    ELSE LET first_char == lines[i].tag
             rest == lines[i].rest
             consumes == first_char \in {" ", "-"}
             adds == first_char \in {" ", "+"}
         IN  IF consumes /\ st.line_number > Len(old_lines)
             THEN Scan(st.line_number, st.new_lines, "source is too short")
             ELSE IF consumes /\ rest # old_lines[st.line_number]
             THEN Scan(st.line_number + 1, st.new_lines, "source is different")
             ELSE hunk_lines(old_lines,
                             Scan(IF consumes THEN st.line_number + 1 ELSE st.line_number,
                                  IF adds THEN Append(st.new_lines, rest) ELSE st.new_lines,
                                  NoError),
                             lines, i + 1)

\* Hunk.add_new_lines
add_new_lines(old_lines, st, hunk) ==
    hunk_lines(old_lines, copy_until(old_lines, st, hunk.start_line), hunk.lines, 1)

\* for hunk in self.hunks: hunk.add_new_lines(...), from hunk i on
RECURSIVE all_hunks(_, _, _, _)
all_hunks(old_lines, st, hunks, i) ==
    IF st.err # NoError \/ i > Len(hunks) THEN st
    ELSE all_hunks(old_lines, add_new_lines(old_lines, st, hunks[i]), hunks, i + 1)

\* FilePatch.prepare_application: the new lines of the file, or the PatchError.
\* new_lines is the FilePatch's list as it is before the call.
prepare_application(files, file_patch, new_lines) ==
    IF file_patch.file_name \notin DOMAIN files
    THEN Scan(1, new_lines, "doesn't exist")
    ELSE LET old_lines == splitlines(files[file_patch.file_name])
             st == all_hunks(old_lines, Scan(1, new_lines, NoError), file_patch.hunks, 1)
         IN  IF st.err # NoError THEN st
             ELSE Scan(Len(old_lines) + 1,
                       st.new_lines
                          \o SubSeq(old_lines, st.line_number, Len(old_lines))
                          \o <<"">>,
                       NoError)

\* What FilePatch.apply writes: "\n".join(new_lines), new_lines ending with "".
written(new_lines) == joined(SubSeq(new_lines, 1, Len(new_lines) - 1))

\* FilePatch.apply: the file is overwritten with the new lines.
FilePatch_apply(files, file_patch, new_lines) ==
    [f \in DOMAIN files \cup {file_patch.file_name} |->
        IF f = file_patch.file_name THEN written(new_lines) ELSE files[f]]

\* The first loop of Patch.apply: prepare every file patch in order, stopping at
\* the first PatchError.  Gives the error and the new lines of each file patch.
RECURSIVE prepare_all(_, _, _, _)
prepare_all(files, file_patches, i, prepared) ==
    IF i > Len(file_patches) THEN [err |-> NoError, new_lines |-> prepared]
    ELSE LET st == prepare_application(files, file_patches[i], <<>>)
         IN  IF st.err # NoError THEN [err |-> st.err, new_lines |-> prepared]
             ELSE prepare_all(files, file_patches, i + 1, Append(prepared, st.new_lines))

\* The second loop of Patch.apply: write every file.
RECURSIVE apply_all(_, _, _, _)
apply_all(files, file_patches, new_lines, i) ==
    IF i > Len(file_patches) THEN files
    ELSE apply_all(FilePatch_apply(files, file_patches[i], new_lines[i]),
                   file_patches, new_lines, i + 1)

\* A patcher that verifies and writes one file after the other.
RECURSIVE Patch_apply_file_by_file(_, _)
Patch_apply_file_by_file(files, file_patches) ==
    IF file_patches = <<>> THEN [err |-> NoError, files |-> files]
    ELSE LET st == prepare_application(files, Head(file_patches), <<>>)
         IN  IF st.err # NoError THEN [err |-> st.err, files |-> files]
             ELSE Patch_apply_file_by_file(
                      FilePatch_apply(files, Head(file_patches), st.new_lines),
                      Tail(file_patches))

\* Patch.apply: the error message returned (NoError for None) and the files
\* after the call.
Patch_apply(files, file_patches) ==
    With(prepare_all(files, file_patches, 1, <<>>),
         LAMBDA p :
             IF p.err # NoError
             THEN [err |-> p.err, files |-> files]
             ELSE [err |-> NoError,
                   files |-> apply_all(files, file_patches, p.new_lines, 1)])

-----------------------------------------------------------------------------
(* Identifiers: the identity of a program as requested and configured *)

str_release == <<"r","e","l","e","a","s","e">>
str_local == <<"l","o","c","a","l">>
str_default == <<"d","e","f","a","u","l","t">>
str_none == <<"n","o","n","e">>
str_all == <<"a","l","l">>
str_true == <<"t","r","u","e">>
str_false == <<"f","a","l","s","e">>
str_5_1 == <<"5",".","1">>
str_5_2 == <<"5",".","2">>
str_5_3 == <<"5",".","3">>
str_linux == <<"l","i","n","u","x">>
str_posix == <<"p","o","s","i","x">>
str_vs == <<"v","s">>
str_x86 == <<"x","8","6">>
str_x64 == <<"x","6","4">>

\* self.source as the string stored in the identifiers
source_string(source) ==
    CASE source = "release" -> str_release
      [] source = "git" -> str_git
      [] source = "local" -> str_local

\* str(b).lower()
bool_string(b) == IF b THEN str_true ELSE str_false

important_identifiers == <<"name", "source", "version", "repo", "commit", "location">>
other_identifiers == <<"target", "compat", "c flags", "patched", "readline">>

\* re.sub(r"[^\w]", "_", s)
escape_path(s) == [i \in 1..Len(s) |-> IF s[i] \in WordChars THEN s[i] ELSE "_"]

\* "-".join(parts)
RECURSIVE join_dash(_)
join_dash(parts) ==
    IF parts = <<>> THEN <<>>
    ELSE IF Len(parts) = 1 THEN parts[1]
    ELSE parts[1] \o <<"-">> \o join_dash(Tail(parts))

\* A hash that joins only the fields the identifiers have.
hash_identifiers_present_only(identifiers) ==
    LET Has(n) == n \in DOMAIN identifiers
        names == SelectSeq(important_identifiers \o other_identifiers, Has)
    IN  join_dash([i \in 1..Len(names) |-> escape_path(identifiers[names[i]])])

\* hash_identifiers: the escaped fields, in the fixed order, joined with '-';
\* a field the identifiers do not have counts as "".
hash_identifiers(identifiers) ==
    LET names == important_identifiers \o other_identifiers
    IN  join_dash([i \in 1..Len(names) |-> escape_path(Get(identifiers, names[i], <<>>))])

\* json.dumps of a string: quotes around it, a backslash before a quote or a
\* backslash.
RECURSIVE json_escape(_)
json_escape(s) ==
    IF s = <<>> THEN <<>>
    ELSE IF s[1] \in {"\"", "\\"} THEN <<"\\", s[1]>> \o json_escape(Tail(s))
    ELSE <<s[1]>> \o json_escape(Tail(s))

json_dumps(s) == <<"\"">> \o json_escape(s) \o <<"\"">>

\* json.loads of a string
RECURSIVE json_unescape(_)
json_unescape(s) ==
    IF s = <<>> THEN <<>>
    ELSE IF s[1] = "\\" /\ Len(s) > 1 THEN <<s[2]>> \o json_unescape(Tail(Tail(s)))
    ELSE <<s[1]>> \o json_unescape(Tail(s))

json_loads(t) == json_unescape(SubSeq(t, 2, Len(t) - 1))

\* json.dump of a dict of strings: its members in the order of the dict
json_dump(d, order) ==
    LET Has(k) == k \in DOMAIN d
        keys == SelectSeq(order, Has)
    IN  [i \in 1..Len(keys) |-> [name |-> json_dumps(<<keys[i]>>),
                                  value |-> json_dumps(d[keys[i]])]]

\* json.load of an object of strings: a later member replaces an earlier one
\* of the same name
RECURSIVE json_load(_)
json_load(text) ==
    IF text = <<>> THEN <<>>
    ELSE LET last == text[Len(text)]
         IN  (json_loads(last.name)[1] :> json_loads(last.value)) @@
             json_load(SubSeq(text, 1, Len(text) - 1))

\* using_cl()
using_cl(opts) == StartsWith(opts.target, str_vs)

cl_version_to_vs_year ==
    (<<"1","5">> :> <<"0","8">> @@ <<"1","6">> :> <<"1","0">> @@
     <<"1","7">> :> <<"1","2">> @@ <<"1","8">> :> <<"1","3">> @@
     <<"1","9">> :> <<"1","5">>)

\* RioLua.major_version_from_version and LuaJIT.major_version_from_version
major_version_from_version(program, version) ==
    IF program = "LuaJIT" THEN str_5_1 ELSE SubSeq(version, 1, 3)

\* RioLua.set_compat and LuaJIT.set_compat: the effective compatibility mode
set_compat(program, major_version, compat) ==
    IF program = "LuaJIT"
    THEN IF compat \in {str_all, str_5_2} THEN str_5_2 ELSE str_default
    ELSE IF major_version = str_5_1
    THEN IF compat = str_none THEN str_none ELSE str_default
    ELSE IF major_version = str_5_2
    THEN IF compat \in {str_none, str_5_2} THEN str_none ELSE str_default
    ELSE IF compat \in {str_default, str_5_2} THEN str_default ELSE compat

\* The switches without the one of Lua 5.2 compatibility in Lua 5.3.
add_compat_cflags_and_redefines_5_1_only(program, major_version, compat) ==
    IF program = "LuaJIT"
    THEN [compat_cflags |-> IF compat = str_5_2 THEN <<"-DLUAJIT_ENABLE_LUA52COMPAT">>
                            ELSE <<>>,
          redefines |-> <<>>]
    ELSE IF major_version = str_5_1
    THEN [compat_cflags |-> <<>>,
          redefines |-> IF compat = str_none
                        THEN <<"#undef LUA_COMPAT_VARARG", "#undef LUA_COMPAT_MOD",
                               "#undef LUA_COMPAT_LSTR", "#undef LUA_COMPAT_GFIND",
                               "#undef LUA_COMPAT_OPENLIB">>
                        ELSE <<>>]
    ELSE IF major_version = str_5_2
    THEN [compat_cflags |-> IF compat = str_default THEN <<"-DLUA_COMPAT_ALL">> ELSE <<>>,
          redefines |-> <<>>]
    ELSE [compat_cflags |->
              IF compat \in {str_5_1, str_all} THEN <<"-DLUA_COMPAT_5_1">> ELSE <<>>,
          redefines |-> <<>>]

\* RioLua.add_compat_cflags_and_redefines and
\* LuaJIT.add_compat_cflags_and_redefines: what is appended to
\* self.compat_cflags and to self.redefines.
add_compat_cflags_and_redefines(program, major_version, compat) ==
    IF program = "LuaJIT"
    THEN [compat_cflags |-> IF compat = str_5_2 THEN <<"-DLUAJIT_ENABLE_LUA52COMPAT">>
                            ELSE <<>>,
          redefines |-> <<>>]
    ELSE IF major_version = str_5_1
    THEN [compat_cflags |-> <<>>,
          redefines |-> IF compat = str_none
                        THEN <<"#undef LUA_COMPAT_VARARG", "#undef LUA_COMPAT_MOD",
                               "#undef LUA_COMPAT_LSTR", "#undef LUA_COMPAT_GFIND",
                               "#undef LUA_COMPAT_OPENLIB">>
                        ELSE <<>>]
    ELSE IF major_version = str_5_2
    THEN [compat_cflags |-> IF compat = str_default THEN <<"-DLUA_COMPAT_ALL">> ELSE <<>>,
          redefines |-> <<>>]
    ELSE [compat_cflags |->
              (IF compat \in {str_5_1, str_all} THEN <<"-DLUA_COMPAT_5_1">> ELSE <<>>)
              \o (IF compat \in {str_default, str_5_2, str_all}
                  THEN <<"-DLUA_COMPAT_5_2">> ELSE <<>>),
          redefines |-> <<>>]

\* Program.set_identifiers
Program_set_identifiers(program, self) ==
    ("name" :> title(program)) @@ ("source" :> source_string(self.source)) @@
    (IF self.source = "release" THEN "version" :> self.version
     ELSE IF self.source = "git" THEN ("repo" :> self.repo) @@ ("commit" :> self.commit)
     ELSE <<>>)

\* The match of r"(x(?:86)|(?:64))" in the output of cl: "x86", or the "64" of
\* "x64".
cl_arch(cl) == IF cl.arch = str_x64 THEN <<"6","4">> ELSE cl.arch

\* What cl.exe tells when its output holds no version and no architecture.
ClUnknown == [version |-> None, arch |-> None]

\* not cl_version or not cl_arch
cl_undetermined(cl) == cl.version = None \/ cl.arch = None

\* Lua.set_identifiers and RioLua.set_identifiers.  cl is what the output of
\* cl.exe tells; exit stands for the sys.exit of an undetermined cl.exe.
Lua_set_identifiers(program, self, opts, cl) ==
    LET ids == Program_set_identifiers(program, self) @@
               ("target" :> opts.target) @@
               ("compat" :> self.compat) @@
               ("c flags" :> IF opts.cflags = None THEN <<>> ELSE opts.cflags) @@
               ("location" :> opts.location) @@
               ("major version" :> self.major_version)
        vs == IF using_cl(opts) /\ ~cl_undetermined(cl)
              THEN ("vs year" :> cl_version_to_vs_year[cl.version]) @@
                   ("vs arch" :> cl_arch(cl))
              ELSE <<>>
        rio == IF program = "RioLua"
               THEN ("readline" :> bool_string(~opts.no_readline)) @@
                    ("patched" :> bool_string(opts.patch))
               ELSE <<>>
    IN  [exit |-> using_cl(opts) /\ cl_undetermined(cl),
         identifiers |-> ids @@ vs @@ rio]

\* set_identifiers of the program's class
set_identifiers(program, self, opts, cl) ==
    IF program = "LuaRocks"
    THEN [exit |-> FALSE, identifiers |-> Program_set_identifiers(program, self)]
    ELSE Lua_set_identifiers(program, self, opts, cl)

-----------------------------------------------------------------------------
(* Source trees and the named patches of RioLua *)

\* A source tree is modelled by two files of a few lines; the named patches
\* are modelled by hunks on these files, one patch for Lua 5.1.5 touching two
\* files and three patches each for Lua 5.3.2 and 5.3.3 touching one file.
Line(t) == [text |-> t, eol |-> "\n"]

\* The files of a released archive, and of a commit in which the second file
\* has moved away from the release.
ReleaseFiles == ("f1" :> <<Line("a")>>) @@ ("f2" :> <<Line("a"), Line("b")>>)
DriftedFiles == ("f1" :> <<Line("a")>>) @@ ("f2" :> <<Line("a"), Line("a")>>)

HunkOf(start, tags, texts) ==
    [start_line |-> start,
     lines |-> [i \in 1..Len(tags) |-> [tag |-> tags[i], rest |-> texts[i]]]]

PatchF1 == [file_name |-> "f1", hunks |-> <<HunkOf(1, <<" ", "+">>, <<"a", "b">>)>>]
PatchF1Line2 == [file_name |-> "f1", hunks |-> <<HunkOf(2, <<" ", "+">>, <<"b", "a">>)>>]
PatchF2 == [file_name |-> "f2", hunks |-> <<HunkOf(2, <<"-", "+">>, <<"b", "a">>)>>]

\* RioLua.all_patches: patch name -> Patch
all_patches ==
    ("reader" :> <<PatchF1, PatchF2>>) @@
    ("metatable" :> <<PatchF1>>) @@ ("label" :> <<PatchF2>>) @@
    ("gmatch" :> <<PatchF1Line2>>) @@
    ("forloop" :> <<PatchF1>>) @@ ("osdate" :> <<PatchF2>>) @@
    ("constants" :> <<PatchF1Line2>>)

\* RioLua.patches_per_version: major version -> minor version -> patch names
patches_per_version ==
    (str_5_1 :> (<<"5">> :> <<"reader">>)) @@
    (str_5_3 :> ((<<"2">> :> <<"metatable", "label", "gmatch">>) @@
                 (<<"3">> :> <<"forloop", "osdate", "constants">>)))

\* The commits a git reference may resolve to, and the paths that exist.
Commits == {<<"a","1">>, <<"b","2">>}
ExistingPaths == {<<"d","i","r">>}

\* What lua.h of a source tree that is no release says, and the tree's files:
\* both commits are Lua 5.3.3, the second one with a drifted file; the local
\* directory holds Lua 5.1 (5.1.0).
source_lua_h(self) ==
    IF self.source = "git" THEN [major |-> str_5_3, minor |-> <<"3">>]
    ELSE [major |-> str_5_1, minor |-> <<"0">>]

source_files(self) ==
    IF self.source = "git" /\ self.commit = <<"b","2">> THEN DriftedFiles
    ELSE ReleaseFiles

\* What identifies the content of the sources staged for a build.
source_origin(program, self) ==
    CASE self.source = "release" -> <<"release", name(program), self.version>>
      [] self.source = "git" -> <<"git", self.repo, self.commit>>
      [] self.source = "local" -> <<"local", self.path>>

-----------------------------------------------------------------------------
(* Construction of the programs: Program.__init__ and Lua.__init__ *)

\* Lua.__init__ and LuaRocks(version): the object after construction.  commit
\* is what 'git rev-parse HEAD' gives after fetch_repo.  exit stands for the
\* sys.exit of a bad version.
Program_new(program, version, opts, commit) ==
    LET init == Program_init(program, version, ExistingPaths)
        base == [source |-> init.source, version |-> init.version, repo |-> init.repo,
                 ref |-> init.ref, path |-> init.path, bad |-> init.bad,
                 commit |-> IF init.source = "git" THEN commit ELSE None]
        major == IF program = "LuaRocks" \/ init.source = "exit" THEN None
                 ELSE IF init.source = "release"
                 THEN major_version_from_version(program, init.version)
                 ELSE source_lua_h(base).major
        compat == IF major = None THEN None ELSE set_compat(program, major, opts.compat)
    IN  [source |-> base.source, version |-> base.version, repo |-> base.repo,
         ref |-> base.ref, path |-> base.path, bad |-> base.bad, commit |-> base.commit,
         major_version |-> major, compat |-> compat]

-----------------------------------------------------------------------------
(* Building and installing *)

\* RioLua.get_minor_version
get_minor_version(self) ==
    IF self.source = "release"
    THEN IF self.version = str_5_1 THEN <<"0">> ELSE <<self.version[Len(self.version)]>>
    ELSE source_lua_h(self).minor

\* Patching that stops at the first patch that fails.
RECURSIVE apply_patches_until_failure(_, _, _, _)
apply_patches_until_failure(files, names, i, events) ==
    IF i > Len(names) THEN [files |-> files, events |-> events]
    ELSE LET r == Patch_apply(files, all_patches[names[i]])
         IN  IF r.err # NoError
             THEN [files |-> r.files, events |-> Append(events, "patch fail")]
             ELSE apply_patches_until_failure(r.files, names, i + 1,
                                              Append(events, "patch ok"))

\* sum(map(self.apply_patch, patches)): RioLua.apply_patch for each patch name
\* in turn.  A patch that fails is reported and the next one is tried.
RECURSIVE apply_patches(_, _, _, _)
apply_patches(files, names, i, events) ==
    IF i > Len(names) THEN [files |-> files, events |-> events]
    ELSE With(Patch_apply(files, all_patches[names[i]]),
              LAMBDA r :
                  apply_patches(r.files, names, i + 1,
                                Append(events, IF r.err = NoError THEN "patch ok"
                                               ELSE "patch fail")))

\* Patching that does not ask for --patch.
handle_patches_unasked(self, opts, files) ==
    LET per_minor == Get(patches_per_version, self.major_version, <<>>)
        names == Get(per_minor, get_minor_version(self), <<>>)
    IN  IF per_minor = <<>> \/ names = <<>>
        THEN [files |-> files, events |-> <<>>]
        ELSE apply_patches(files, names, 1, <<>>)

\* RioLua.handle_patches: the patches of the (major, minor) version are applied
\* when --patch is given.
handle_patches(self, opts, files) ==
    LET per_minor == Get(patches_per_version, self.major_version, <<>>)
        names == Get(per_minor, get_minor_version(self), <<>>)
    IN  IF per_minor = <<>> \/ names = <<>> \/ ~opts.patch
        THEN [files |-> files, events |-> <<>>]
        ELSE apply_patches(files, names, 1, <<>>)

\* What a compiled tree is made of: the patched sources, the paths and the
\* compatibility switches written into luaconf.h, the compiler flags and the
\* compiler.
BuiltTree(program, self, opts, files, cl) ==
    [program |-> program,
     origin |-> source_origin(program, self),
     files |-> files,
     location |-> opts.location,
     major_version |-> self.major_version,
     compat |-> self.compat,
     cflags |-> IF opts.cflags = None THEN <<>> ELSE opts.cflags,
     target |-> opts.target,
     readline |-> program = "RioLua" /\ ~opts.no_readline,
     cl |-> IF using_cl(opts) THEN cl ELSE ClUnknown]

NoTree == [program |-> "none"]

\* RioLua.make and LuaJIT.make up to the compiler: RioLua handles its patches.
make_sources(program, self, opts) ==
    IF program = "RioLua"
    THEN handle_patches(self, opts, source_files(self))
    ELSE [files |-> source_files(self), events |-> <<>>]

\* Lua.build from self.fetch() on: the sources are fetched, the redefines are
\* patched, make() patches and compiles, and the result is copied to
\* cached_build_path unless that is None.  sources is what make_sources gives;
\* fail = "make" makes the compiler fail, which ends the run.
Lua_build_sources(program, self, opts, cache, cl, fail, cached_build_path, sources) ==
    IF fail = "make"
    THEN [exit |-> TRUE, tree |-> NoTree, cache |-> cache,
          events |-> <<"fetch", "patch_redefines">> \o sources.events
                         \o <<"compile failed">>]
    ELSE IF cached_build_path # None
    THEN [exit |-> FALSE, tree |-> BuiltTree(program, self, opts, sources.files, cl),
          cache |-> (cached_build_path :> BuiltTree(program, self, opts, sources.files, cl))
                        @@ cache,
          events |-> <<"fetch", "patch_redefines">> \o sources.events
                         \o <<"compile", "cache store">>]
    ELSE [exit |-> FALSE, tree |-> BuiltTree(program, self, opts, sources.files, cl),
          cache |-> cache,
          events |-> <<"fetch", "patch_redefines">> \o sources.events \o <<"compile">>]

\* A build that compiles again over a directory of the build cache.
Lua_build_at_over(program, self, opts, cache, cl, fail, cached_build_path) ==
    With(make_sources(program, self, opts),
         LAMBDA sources :
             Lua_build_sources(program, self, opts, cache, cl, fail,
                               cached_build_path, sources))

\* Lua.build once self.cached_build_path is set: a directory of that name in
\* the build cache is used as it is.
Lua_build_at(program, self, opts, cache, cl, fail, cached_build_path) ==
    IF cached_build_path # None /\ cached_build_path \in DOMAIN cache
    THEN [exit |-> FALSE, tree |-> cache[cached_build_path], cache |-> cache,
          events |-> <<"cached">>]
    ELSE With(make_sources(program, self, opts),
              LAMBDA sources :
                  Lua_build_sources(program, self, opts, cache, cl, fail,
                                    cached_build_path, sources))

\* A build that never looks into the build cache and never stores in it.
Lua_build_uncached(program, self, opts, cache, cl, fail) ==
    Lua_build_sources(program, self, opts, cache, cl, fail, None,
                      make_sources(program, self, opts))

\* A build that uses the build cache for a local directory as well.
Lua_build_local_cached(program, self, opts, cache, cl, fail) ==
    Lua_build_at(program, self, opts, cache, cl, fail,
                 IF opts.builds # None
                 THEN hash_identifiers(self.identifiers) ELSE None)

\* Lua.build.  cache is the build cache directory, directory name -> tree.
Lua_build(program, self, opts, cache, cl, fail) ==
    With(IF opts.builds # None /\ self.source # "local"
         THEN hash_identifiers(self.identifiers) ELSE None,
         LAMBDA cached_build_path :
             Lua_build_at(program, self, opts, cache, cl, fail, cached_build_path))

NoEntry == [absent |-> TRUE]

\* A look-up of the interpreter that knows the entry of Lua only.
lua_identifiers_lua_only(all_identifiers) ==
    Get(all_identifiers, "lua", NoEntry)

\* self.lua_identifiers of LuaRocks.build
lua_identifiers(all_identifiers) ==
    Get(all_identifiers, "lua", Get(all_identifiers, "LuaJIT", NoEntry))

\* LuaRocks.build once self.lua_identifiers is set, and what LuaRocks.install
\* writes: LuaRocks is configured for the location and for the major version
\* and the target of the interpreter's identifiers, and install writes the
\* interpreter's C flags into config-<major version>.lua.
LuaRocks_build_with(self, opts, lua_ids, fail) ==
    IF lua_ids = NoEntry
    THEN [exit |-> TRUE, tree |-> NoTree, events |-> <<"no lua">>]
    ELSE IF fail = "make"
    THEN [exit |-> TRUE, tree |-> NoTree, events |-> <<"fetch", "compile failed">>]
    ELSE [exit |-> FALSE,
          tree |-> [program |-> "LuaRocks",
                    origin |-> source_origin("LuaRocks", self),
                    location |-> opts.location,
                    lua_version |-> lua_ids["major version"],
                    lua_target |-> lua_ids["target"],
                    cflags |-> lua_ids["c flags"]],
          events |-> <<"fetch", "compile">>]

\* LuaRocks.build
LuaRocks_build(self, opts, all_identifiers, fail) ==
    LuaRocks_build_with(self, opts, lua_identifiers(all_identifiers), fail)

\* The slot of the install location a program's files go to: Lua and LuaJIT
\* both install bin/lua, the headers and the library.
slot(program) == IF program = "LuaRocks" THEN "luarocks" ELSE "lua"

\* build() of the program's class
build(program, self, opts, all_identifiers, cache, files, cl, fail) ==
    IF program = "LuaRocks"
    THEN [cache |-> cache] @@ LuaRocks_build(self, opts, all_identifiers, fail)
    ELSE Lua_build(program, self, opts, cache, cl, fail)

\* install() of the program's class: the built tree replaces what the slot held.
install(program, files, tree) == [files EXCEPT ![slot(program)] = tree]

\* An update that records the identifiers before it installs.
build_and_install_update_first(program, self, all_identifiers, files, b) ==
    IF b.exit
    THEN [result |-> "exit", all_identifiers |-> all_identifiers, cache |-> b.cache,
          files |-> files, events |-> b.events]
    ELSE [result |-> "installed",
          all_identifiers |-> (name(program) :> self.identifiers) @@ all_identifiers,
          cache |-> b.cache,
          files |-> install(program, files, b.tree),
          events |-> b.events \o <<"update", "install">>]

\* Program.update_identifiers after the test for "already installed": b is
\* what self.build() gave.
build_and_install(program, self, all_identifiers, files, b) ==
    IF b.exit
    THEN [result |-> "exit", all_identifiers |-> all_identifiers, cache |-> b.cache,
          files |-> files, events |-> b.events]
    ELSE [result |-> "installed",
          all_identifiers |-> (name(program) :> self.identifiers) @@ all_identifiers,
          cache |-> b.cache,
          files |-> install(program, files, b.tree),
          events |-> b.events \o <<"install", "update">>]

\* A test for "already installed" that does not look at --ignore-installed.
already_installed_no_force(self, opts, installed_identifiers) ==
    /\ self.source # "local"
    /\ installed_identifiers # NoEntry
    /\ hash_identifiers(self.identifiers) = hash_identifiers(installed_identifiers)

\* The test of Program.update_identifiers for "already installed".
already_installed(self, opts, installed_identifiers) ==
    /\ ~opts.ignore_installed
    /\ self.source # "local"
    /\ installed_identifiers # NoEntry
    /\ hash_identifiers(self.identifiers) = hash_identifiers(installed_identifiers)

\* An update that always builds and installs.
update_identifiers_always(program, self, opts, all_identifiers, cache, files, cl, fail) ==
    build_and_install(program, self, all_identifiers, files,
                      build(program, self, opts, all_identifiers, cache, files, cl, fail))

\* Program.update_identifiers, self.identifiers being what set_identifiers has
\* set.  files are the files of the install location, slot -> installed tree.
update_identifiers(program, self, opts, all_identifiers, cache, files, cl, fail) ==
    IF already_installed(self, opts, Get(all_identifiers, name(program), NoEntry))
    THEN [result |-> "skipped", all_identifiers |-> all_identifiers, cache |-> cache,
          files |-> files, events |-> <<"already installed">>]
    ELSE With(build(program, self, opts, all_identifiers, cache, files, cl, fail),
              LAMBDA b : build_and_install(program, self, all_identifiers, files, b))

-----------------------------------------------------------------------------
(* The manifest file *)

manifest_version == 3

\* The content of hererocks.manifest: no file, a file that is not JSON, a file
\* holding a JSON value that is no object, or a JSON object.
FileMissing == [kind |-> "missing"]
FileNotJson == [kind |-> "not json"]
FileNoObject == [kind |-> "no object"]
FileObject(data) == [kind |-> "object", data |-> data]

\* get_installed_identifiers: crash stands for the AttributeError raised by
\* identifiers.get on a JSON value that is no object.
get_installed_identifiers(file) ==
    IF file.kind = "missing" THEN [crash |-> FALSE, identifiers |-> <<>>]
    ELSE IF file.kind = "not json" THEN [crash |-> FALSE, identifiers |-> <<>>]
    ELSE IF file.kind = "no object" THEN [crash |-> TRUE, identifiers |-> <<>>]
    ELSE IF "version" \in DOMAIN file.data /\ file.data["version"] = manifest_version
    THEN [crash |-> FALSE, identifiers |-> file.data]
    ELSE [crash |-> FALSE, identifiers |-> <<>>]

\* save_installed_identifiers: the dict gets the version and is dumped.
save_installed_identifiers(all_identifiers) ==
    ("version" :> manifest_version) @@ all_identifiers

\* del identifiers[key] when the key is there
\* A del that leaves the entry in the dict.
without_nothing(all_identifiers, key) == all_identifiers

without(all_identifiers, key) ==
    [k \in DOMAIN all_identifiers \ {key} |-> all_identifiers[k]]

-----------------------------------------------------------------------------
(* Inputs and idle values of the parts *)

\* Version strings that are neither aliases nor supported versions.
OtherVersionStrings ==
    {<<"@">>, <<"@","x">>, <<"r","@","x">>, <<"r","@">>, <<"r","@","x","@","y">>,
     <<"d","i","r">>, <<"d","@","r">>, <<"9",".","9">>, <<"5",".","1",".","5","@">>}

\* The version strings tried: every alias, every supported version of every
\* program, and the strings above.
VersionStrings ==
    UNION {DOMAIN translations(p) \cup versions(p) : p \in Programs}
        \cup OtherVersionStrings

\* Paths that may exist as directories when the program runs.
PossiblePaths == {<<"d","i","r">>, <<"d","@","r">>, <<"5",".","3">>}

NotConstructed == [source |-> "none"]

IdleResolve ==
    /\ rProgram = "RioLua"
    /\ rVersion = <<>>
    /\ rPaths = {}
    /\ rSelf = NotConstructed

\* The longest file, the longest hunk and the most hunks per file tried.
MaxFileLines == 2
MaxHunkLines == 2
MaxHunks == 1
MaxOutput == 3

LineTexts == {"a", "b"}
Eols == {"\n"}
FileNames == {"f1", "f2"}

SeqsUpTo(S, n) == UNION {[1..k -> S] : k \in 0..n}

FileContents == SeqsUpTo([text : LineTexts, eol : Eols], MaxFileLines)

HunkLine == [tag : {" ", "-", "+"}, rest : LineTexts]
Hunks == [start_line : 1..MaxFileLines,
          lines : SeqsUpTo(HunkLine, MaxHunkLines) \ {<<>>}]
HunkLists == SeqsUpTo(Hunks, MaxHunks) \ {<<>>}

\* Files with Unix or with DOS line endings, with or without a line ending
\* after the last line.
EndedContents ==
    {[i \in 1..Len(c) |->
         [text |-> c[i].text,
          eol |-> IF i = Len(c) /\ ~ended THEN "" ELSE eol]] :
        c \in FileContents, eol \in {"\n", "\r\n"}, ended \in BOOLEAN}

\* Hunks that may begin right after the last line, and lists of one hunk
\* more than MaxHunks.
LateHunks == [start_line : 1..(MaxFileLines + 1),
              lines : SeqsUpTo(HunkLine, MaxHunkLines) \ {<<>>}]
LateHunkLists == SeqsUpTo(LateHunks, MaxHunks + 1) \ {<<>>}

NotApplied == [err |-> "not applied"]

IdlePatch ==
    /\ pFiles = <<>>
    /\ pFiles0 = <<>>
    /\ pPatch = <<>>
    /\ pResult = NotApplied

\* Install locations, two of which differ in one character that is no word
\* character in one of them.
Locations == {<<"/","a","-","b">>, <<"/","a","_","b">>, <<"/","c">>}

\* Extra compiler flags: none given, and two that differ in one character.
CFlags == {None, <<"-","g">>, <<"+","g">>}

\* Targets and compatibility modes the identity is computed for.
Targets == {str_linux, str_posix, str_vs}
Compats == {str_default, str_none, str_all}

\* What cl.exe may tell, for the targets that use it.
ClOutputs == {[version |-> <<"1","9">>, arch |-> str_x64],
              [version |-> <<"1","5">>, arch |-> str_x86]}

IdentityOpts ==
    [location : Locations, target : Targets, compat : Compats, cflags : CFlags,
     patch : {TRUE}, no_readline : {FALSE}]

\* Nothing has been saved yet.
NotReloaded == [variant |-> "none"]

IdleIdentity ==
    /\ iProgram = "RioLua"
    /\ iVersion = <<>>
    /\ iCl = ClUnknown
    /\ iOpts = <<>>
    /\ iIds = <<>>
    /\ iReload = NotReloaded

\* The runs of hererocks in a row.
MaxRuns == 2

MainLocations == {<<"/","a","-","b">>}
BuildsRoot == <<"B">>
PackageNames == {"lua", "LuaJIT", "luarocks"}

\* The command lines tried: at least one package, not both interpreters,
\* --patch only with a Lua that has patches, and --ignore-installed only
\* together with --builds.
MainOpts ==
    {o \in [location : MainLocations,
            lua : {None, str_5_1, <<"@">>, <<"d","i","r">>},
            luajit : {None, <<"2",".","0">>},
            luarocks : {None, <<"2",".","4">>, <<"9",".","9">>},
            show : {FALSE},
            patch : BOOLEAN,
            ignore_installed : BOOLEAN,
            builds : {None, BuildsRoot},
            target : {str_linux},
            compat : {str_default},
            cflags : {None},
            no_readline : {FALSE}] :
        /\ o.lua # None \/ o.luajit # None \/ o.luarocks # None
        /\ ~(o.lua # None /\ o.luajit # None)
        /\ o.patch => o.lua \in {str_5_1, <<"@">>}
        /\ o.ignore_installed => o.builds # None}

\* Command lines without --builds, --patch and --ignore-installed
PlainOpts(lua, luajit, luarocks, show) ==
    [location |-> <<"/","a","-","b">>, lua |-> lua, luajit |-> luajit,
     luarocks |-> luarocks, show |-> show, patch |-> FALSE,
     ignore_installed |-> FALSE, builds |-> None, target |-> str_linux,
     compat |-> str_default, cflags |-> None, no_readline |-> FALSE]

\* --show on its own
ShowOpts == {PlainOpts(None, None, None, TRUE)}

\* Command lines the parser rejects: nothing to do, both interpreters, and
\* --show together with a package.
RejectedOpts ==
    {PlainOpts(None, None, None, FALSE),
     PlainOpts(str_5_1, <<"2",".","0">>, None, FALSE),
     PlainOpts(str_5_1, None, None, TRUE),
     PlainOpts(None, None, <<"2",".","4">>, TRUE)}

CommandLines == MainOpts \cup ShowOpts \cup RejectedOpts

NoOpts == [lua |-> None, luajit |-> None, luarocks |-> None]
NotRun == [result |-> "none"]
NoRun == [opts |-> NoOpts, status |-> "none", progs |-> [n \in PackageNames |-> NotRun]]

\* An install location: what is installed for the interpreter and for
\* LuaRocks, and whether bin/ holds the activation scripts.
NoFiles == [lua |-> NoTree, luarocks |-> NoTree, scripts |-> FALSE]
NoIO == [reads |-> 0, writes |-> 0]

\* The scratch directory: how often the run has made and removed one, whether
\* it exists and the programs whose sources or archives are in it.
NoTemp == [created |-> 0, removed |-> 0, exists |-> FALSE, holds |-> {}]

\* A manifest written with manifest version 2, holding an entry for Lua 5.1.5,
\* and the tree installed then.
StaleOpts(location) ==
    [location |-> location, lua |-> str_5_1, luajit |-> None, luarocks |-> None,
     show |-> FALSE, patch |-> FALSE, ignore_installed |-> FALSE, builds |-> None,
     target |-> str_linux, compat |-> str_default, cflags |-> None,
     no_readline |-> FALSE]

StaleManifest(location) ==
    LET o == StaleOpts(location)
        self == Program_new("RioLua", o.lua, o, None)
    IN  FileObject(("version" :> 2) @@
                   ("lua" :> set_identifiers("RioLua", self, o, ClUnknown).identifiers))

StaleFiles ==
    [lua |-> [program |-> "RioLua", origin |-> <<"stale">>], luarocks |-> NoTree,
     scripts |-> TRUE]

InitialManifests(location) ==
    {FileMissing, FileNotJson, FileNoObject, StaleManifest(location)}

\* str(n) for a natural number
RECURSIVE str_int(_)
str_int(n) ==
    IF n < 10 THEN <<Digits[n + 1]>>
    ELSE str_int(n \div 10) \o <<Digits[(n % 10) + 1]>>

\* The versions of git tried, and what follows the version in the output of
\* 'git --version' ("1.7.9.5", "2.11.0.windows.1", "2.11.0 (Apple Git-128)").
GitVersions == {<<1,6,5>>, <<1,7,9>>, <<1,7,10>>, <<1,8,0>>, <<1,10,0>>, <<2,11,0>>, <<0,99,9>>}
GitSuffixes ==
    {<<>>, <<".","5">>, <<".","w","i","n","d","o","w","s",".","1">>,
     <<" ","(","A","p","p","l","e"," ","G","i","t","-","1","2","8",")">>}

\* What 'git --version' prints for a version of git
git_version_output(v, suffix) ==
    <<"g","i","t"," ","v","e","r","s","i","o","n"," ">>
        \o str_int(v[1]) \o <<".">> \o str_int(v[2]) \o <<".">> \o str_int(v[3]) \o suffix

\* Repositories given before '@', besides the default one of the program
OtherRepos ==
    {<<"h","t","t","p",":","/","/","b","i","t","b","u","c","k","e","t",".","c","o","m","/","r">>,
     <<"h","t","t","p","s",":","/","/","e","x","a","m","p","l","e",".","o","r","g","/","r">>,
     <<"h","t","t","p","s",":","/","/","g","i","t","h","u","b",".","c","o","m",".","e","v","i","l","/","r">>,
     <<"g","i","t",":","/","/","e","x","a","m","p","l","e",".","o","r","g","/","r">>}

\* References: a branch, the empty reference of "repo@", two abbreviated
\* commits and a tag
Refs == {master, <<>>, <<"a","b","c","1">>, <<"D","E","A","D">>, <<"v","5",".","3">>}

DownloadsRoot == <<"D">>

\* The options and the environment of a fetch_repo.  git_version is None when
\* 'git --version' prints nothing.
CloneEnvs ==
    {e \in [downloads : {None, DownloadsRoot}, no_git_cache : BOOLEAN,
            repo_exists : BOOLEAN, ref_known : BOOLEAN, on_branch : BOOLEAN,
            git_version : GitVersions \cup {None}, suffix : GitSuffixes] :
        /\ e.downloads = None => ~e.repo_exists
        /\ ~e.repo_exists => (~e.ref_known /\ ~e.on_branch)
        /\ e.git_version = None => e.suffix = <<>>}

NotFetched == [fetched |-> FALSE, command |-> <<"none">>]

IdleClone ==
    /\ cProgram = "RioLua"
    /\ cRepo = <<>>
    /\ cRef = <<>>
    /\ cEnv = <<>>
    /\ cRun = NotFetched

\* The releases fetched: one of each program, LuaJIT's being the one that is
\* fetched under another name.
FetchVersions(program) ==
    CASE program = "RioLua" -> {<<"5",".","3",".","4">>}
      [] program = "LuaJIT" -> {<<"2",".","0",".","1">>, <<"2",".","0",".","5">>}
      [] program = "LuaRocks" -> {<<"2",".","4",".","2">>}

\* The programs fetch is called on: a release not fetched yet (LuaRocks also
\* as the zip archive of Windows), a git repository that is in the downloads
\* cache or was cloned into the scratch directory, and a local directory.
FetchSelves(program) ==
    [source : {"release"}, version : FetchVersions(program), fetched : {FALSE},
     win32_zip : IF program = "LuaRocks" THEN BOOLEAN ELSE {FALSE}]
    \cup [source : {"git"}, version : {None}, fetched : BOOLEAN, win32_zip : {FALSE}]
    \cup [source : {"local"}, version : {None}, fetched : {TRUE}, win32_zip : {FALSE}]

\* An archive of the file name that is not the released one.
Tampered(file_name) == [archive |-> file_name, genuine |-> FALSE]

\* What download() may do for an archive
Outcomes(file_name) ==
    {[kind |-> "ok", contents |-> Released(file_name)],
     [kind |-> "ok", contents |-> Tampered(file_name)],
     [kind |-> "URLError", contents |-> NoContents],
     [kind |-> "error", contents |-> NoContents]}

\* The URLs of the archive of a release, one per mirror
urls(program, self) ==
    {get_download_url(program, self, downloads(program)[i]) :
        i \in 1..Len(downloads(program))}

NotStarted == [exit |-> "not started"]

IdleFetch ==
    /\ fProgram = "RioLua"
    /\ fSelf = <<>>
    /\ fOpts = <<>>
    /\ fDir = <<>>
    /\ fNet = <<>>
    /\ fRun = NotStarted
    /\ fPast = <<>>

\* A command: whether it can be started, its exit status and what it prints
\* (to stdout and stderr together).
Commands ==
    {c \in [started : BOOLEAN, returncode : {0, 1, 128},
            output : SeqsUpTo({"x", " ", "\n"}, MaxOutput)] :
        ~c.started => (c.returncode = 0 /\ c.output = <<>>)}

NotCalled == [end |-> "none"]

IdleCommand ==
    /\ cmdCall = <<>>
    /\ cmdRun = NotCalled

\* The values of --compat
AllCompats == {str_default, str_none, str_all, str_5_1, str_5_2}

NotSet == [compat |-> None]

IdleCompat ==
    /\ kProgram = "RioLua"
    /\ kVersion = <<>>
    /\ kOpts = <<>>
    /\ kSelf = NotSet

\* An install root nothing was installed into.
NoRoot == [bin |-> NoEntry, include |-> NoEntry, lib |-> NoEntry]

NoInstallRun == [count |-> 0, result |-> "none"]

IdleInstall ==
    /\ nRoot = NoRoot
    /\ nManifest = <<>>
    /\ nRun = NoInstallRun

\* The manifest file: the dict in it and the run that wrote it (0: none of
\* the two runs).
ManifestOf(data, writer) == [data |-> data, writer |-> writer]

IdleOverlap ==
    /\ xManifest = ManifestOf(<<>>, 0)
    /\ xCache = {}
    /\ xProc = <<>>

IdleSide == IdleInstall /\ IdleOverlap

IdleAux == IdleCommand /\ IdleCompat /\ IdleSide

IdleAcquire == IdleClone /\ IdleFetch /\ IdleAux

IdleMain ==
    /\ manifest = <<>>
    /\ buildCache = <<>>
    /\ installed = <<>>
    /\ nruns = 0
    /\ pc = "idle"
    /\ cmdline = NoOpts
    /\ allIdentifiers = <<>>
    /\ status = "none"
    /\ progs = NoRun.progs
    /\ startManifest = FileMissing
    /\ prev = NoRun
    /\ built = {}
    /\ startDisk = <<>>
    /\ manifestIO = NoIO
    /\ tempDir = NoTemp


-----------------------------------------------------------------------------
(* The resolver on its own: one construction of a Program from a version     *)
(* string, for every program and a set of version strings.                  *)

InitResolve ==
    /\ rProgram \in Programs
    /\ rVersion \in VersionStrings
    /\ rPaths \in SUBSET PossiblePaths
    /\ rSelf = NotConstructed
    /\ IdlePatch
    /\ IdleIdentity
    /\ IdleMain
    /\ IdleAcquire

\* Program(version)
Construct ==
    /\ rSelf = NotConstructed
    /\ rSelf' = Program_init(rProgram, rVersion, rPaths)
    /\ UNCHANGED <<rProgram, rVersion, rPaths>>
    /\ UNCHANGED <<patchVars, identityVars, mainVars, acquireVars>>

NextResolve == Construct

SpecResolve == InitResolve /\ [][NextResolve]_vars

(***************************************************************************)
(* The keys of the three checksums tables: the archive file names a SHA256 *)
(* digest is pinned for.                                                   *)
(***************************************************************************)
RioLua_checksums ==
    { <<"l","u","a","-","5",".","1",".","t","a","r",".","g","z">>,
      <<"l","u","a","-","5",".","1",".","1",".","t","a","r",".","g","z">>,
      <<"l","u","a","-","5",".","1",".","2",".","t","a","r",".","g","z">>,
      <<"l","u","a","-","5",".","1",".","3",".","t","a","r",".","g","z">>,
      <<"l","u","a","-","5",".","1",".","4",".","t","a","r",".","g","z">>,
      <<"l","u","a","-","5",".","1",".","5",".","t","a","r",".","g","z">>,
      <<"l","u","a","-","5",".","2",".","0",".","t","a","r",".","g","z">>,
      <<"l","u","a","-","5",".","2",".","1",".","t","a","r",".","g","z">>,
      <<"l","u","a","-","5",".","2",".","2",".","t","a","r",".","g","z">>,
      <<"l","u","a","-","5",".","2",".","3",".","t","a","r",".","g","z">>,
      <<"l","u","a","-","5",".","2",".","4",".","t","a","r",".","g","z">>,
      <<"l","u","a","-","5",".","3",".","0",".","t","a","r",".","g","z">>,
      <<"l","u","a","-","5",".","3",".","1",".","t","a","r",".","g","z">>,
      <<"l","u","a","-","5",".","3",".","2",".","t","a","r",".","g","z">>,
      <<"l","u","a","-","5",".","3",".","3",".","t","a","r",".","g","z">>,
      <<"l","u","a","-","5",".","3",".","4",".","t","a","r",".","g","z">> }

LuaJIT_checksums ==
    { <<"L","u","a","J","I","T","-","2",".","0",".","0",".","t","a","r",".","g","z">>,
      <<"L","u","a","J","I","T","-","2",".","0",".","1","-","f","i","x","e","d",".","t","a","r",".","g","z">>,
      <<"L","u","a","J","I","T","-","2",".","0",".","2",".","t","a","r",".","g","z">>,
      <<"L","u","a","J","I","T","-","2",".","0",".","3",".","t","a","r",".","g","z">>,
      <<"L","u","a","J","I","T","-","2",".","0",".","4",".","t","a","r",".","g","z">>,
      <<"L","u","a","J","I","T","-","2",".","0",".","5",".","t","a","r",".","g","z">>,
      <<"L","u","a","J","I","T","-","2",".","1",".","0","-","b","e","t","a","1",".","t","a","r",".","g","z">>,
      <<"L","u","a","J","I","T","-","2",".","1",".","0","-","b","e","t","a","2",".","t","a","r",".","g","z">>,
      <<"L","u","a","J","I","T","-","2",".","1",".","0","-","b","e","t","a","3",".","t","a","r",".","g","z">> }

LuaRocks_checksums ==
    { <<"l","u","a","r","o","c","k","s","-","2",".","0",".","1","0",".","t","a","r",".","g","z">>,
      <<"l","u","a","r","o","c","k","s","-","2",".","0",".","1","0","-","w","i","n","3","2",".","z","i","p">>,
      <<"l","u","a","r","o","c","k","s","-","2",".","0",".","1","1",".","t","a","r",".","g","z">>,
      <<"l","u","a","r","o","c","k","s","-","2",".","0",".","1","1","-","w","i","n","3","2",".","z","i","p">>,
      <<"l","u","a","r","o","c","k","s","-","2",".","0",".","1","2",".","t","a","r",".","g","z">>,
      <<"l","u","a","r","o","c","k","s","-","2",".","0",".","1","2","-","w","i","n","3","2",".","z","i","p">>,
      <<"l","u","a","r","o","c","k","s","-","2",".","0",".","1","3",".","t","a","r",".","g","z">>,
      <<"l","u","a","r","o","c","k","s","-","2",".","0",".","1","3","-","w","i","n","3","2",".","z","i","p">>,
      <<"l","u","a","r","o","c","k","s","-","2",".","0",".","8",".","t","a","r",".","g","z">>,
      <<"l","u","a","r","o","c","k","s","-","2",".","0",".","8","-","w","i","n","3","2",".","z","i","p">>,
      <<"l","u","a","r","o","c","k","s","-","2",".","0",".","9",".","t","a","r",".","g","z">>,
      <<"l","u","a","r","o","c","k","s","-","2",".","0",".","9","-","w","i","n","3","2",".","z","i","p">>,
      <<"l","u","a","r","o","c","k","s","-","2",".","1",".","0",".","t","a","r",".","g","z">>,
      <<"l","u","a","r","o","c","k","s","-","2",".","1",".","0","-","w","i","n","3","2",".","z","i","p">>,
      <<"l","u","a","r","o","c","k","s","-","2",".","1",".","1",".","t","a","r",".","g","z">>,
      <<"l","u","a","r","o","c","k","s","-","2",".","1",".","1","-","w","i","n","3","2",".","z","i","p">>,
      <<"l","u","a","r","o","c","k","s","-","2",".","1",".","2",".","t","a","r",".","g","z">>,
      <<"l","u","a","r","o","c","k","s","-","2",".","1",".","2","-","w","i","n","3","2",".","z","i","p">>,
      <<"l","u","a","r","o","c","k","s","-","2",".","2",".","0",".","t","a","r",".","g","z">>,
      <<"l","u","a","r","o","c","k","s","-","2",".","2",".","0","-","w","i","n","3","2",".","z","i","p">>,
      <<"l","u","a","r","o","c","k","s","-","2",".","2",".","1",".","t","a","r",".","g","z">>,
      <<"l","u","a","r","o","c","k","s","-","2",".","2",".","1","-","w","i","n","3","2",".","z","i","p">>,
      <<"l","u","a","r","o","c","k","s","-","2",".","2",".","2",".","t","a","r",".","g","z">>,
      <<"l","u","a","r","o","c","k","s","-","2",".","2",".","2","-","w","i","n","3","2",".","z","i","p">>,
      <<"l","u","a","r","o","c","k","s","-","2",".","3",".","0",".","t","a","r",".","g","z">>,
      <<"l","u","a","r","o","c","k","s","-","2",".","3",".","0","-","w","i","n","3","2",".","z","i","p">>,
      <<"l","u","a","r","o","c","k","s","-","2",".","4",".","0",".","t","a","r",".","g","z">>,
      <<"l","u","a","r","o","c","k","s","-","2",".","4",".","0","-","w","i","n","3","2",".","z","i","p">>,
      <<"l","u","a","r","o","c","k","s","-","2",".","4",".","1",".","t","a","r",".","g","z">>,
      <<"l","u","a","r","o","c","k","s","-","2",".","4",".","1","-","w","i","n","3","2",".","z","i","p">>,
      <<"l","u","a","r","o","c","k","s","-","2",".","4",".","2",".","t","a","r",".","g","z">>,
      <<"l","u","a","r","o","c","k","s","-","2",".","4",".","2","-","w","i","n","3","2",".","z","i","p">> }

checksum_keys(program) ==
    CASE program = "RioLua" -> RioLua_checksums
      [] program = "LuaJIT" -> LuaJIT_checksums
      [] program = "LuaRocks" -> LuaRocks_checksums

\* os.name == "nt" decides win32_zip for LuaRocks; Lua and LuaJIT never use it.
win32_zips(program) == IF program = "LuaRocks" THEN BOOLEAN ELSE {FALSE}

\* self.checksums[self.get_file_name()]: a missing key raises KeyError.
expected_checksum(program, self) ==
    IF get_file_name(program, self) \in checksum_keys(program)
    THEN "pinned"
    ELSE "KeyError"

\* Every string the tables give a meaning to: supported versions and aliases.
TableRequests(program) == versions(program) \cup DOMAIN translations(program)

\* A request from the tables; a directory named like the resolved version may
\* exist, so that the local-path branch is open to a target that reaches it.
InitTables ==
    /\ rProgram \in Programs
    /\ rVersion \in TableRequests(rProgram)
    /\ rPaths \in {{}, {translate(rProgram, rVersion)}}
    /\ rSelf = NotConstructed
    /\ IdlePatch
    /\ IdleIdentity
    /\ IdleMain
    /\ IdleAcquire

\* The checksum lookup of Program.fetch for a release.
LookupChecksum ==
    /\ rSelf.source = "release"
    /\ "file_name" \notin DOMAIN rSelf
    /\ \E win32_zip \in win32_zips(rProgram) :
         LET self == [version |-> rSelf.version, win32_zip |-> win32_zip]
         IN  rSelf' = [file_name |-> get_file_name(rProgram, self),
                       win32_zip |-> win32_zip,
                       checksum |-> expected_checksum(rProgram, self)] @@ rSelf
    /\ UNCHANGED <<rProgram, rVersion, rPaths>>
    /\ UNCHANGED <<patchVars, identityVars, mainVars, acquireVars>>

NextTables == Construct \/ LookupChecksum

SpecTables == InitTables /\ [][NextTables]_vars

-----------------------------------------------------------------------------
(* The patch engine on its own: one Patch.apply of a patch for two files on   *)
(* a working directory in which each file may be missing.                   *)

InitPatch ==
    /\ \E present \in SUBSET FileNames : pFiles \in [present -> FileContents]
    /\ pFiles0 = pFiles
    /\ \E h1 \in HunkLists, h2 \in HunkLists :
          pPatch = <<[file_name |-> "f1", hunks |-> h1],
                     [file_name |-> "f2", hunks |-> h2]>>
    /\ pResult = NotApplied
    /\ IdleResolve
    /\ IdleIdentity
    /\ IdleMain
    /\ IdleAcquire

\* Patch(src).apply()
Apply ==
    /\ pResult = NotApplied
    /\ LET r == Patch_apply(pFiles, pPatch)
       IN  /\ pResult' = [err |-> r.err]
           /\ pFiles' = r.files
    /\ UNCHANGED <<pFiles0, pPatch>>
    /\ UNCHANGED <<resolveVars, identityVars, mainVars, acquireVars>>

NextPatch == Apply

SpecPatch == InitPatch /\ [][NextPatch]_vars

-----------------------------------------------------------------------------
(* The patch of one file: a file with Unix or DOS line endings, or no file,  *)
(* and a FilePatch of one or two hunks.                                      *)

InitFilePatch ==
    /\ \E present \in SUBSET {"f1"} : pFiles \in [present -> EndedContents]
    /\ pFiles0 = pFiles
    /\ \E h \in LateHunkLists : pPatch = <<[file_name |-> "f1", hunks |-> h]>>
    /\ pResult = NotApplied
    /\ IdleResolve
    /\ IdleIdentity
    /\ IdleMain
    /\ IdleAcquire

SpecFilePatch == InitFilePatch /\ [][NextPatch]_vars

-----------------------------------------------------------------------------
(* The identity on its own: the identifiers and the hash of two requests for  *)
(* the same release of Lua or LuaJIT on the same machine.                   *)

InitIdentity ==
    /\ \E p \in {"RioLua", "LuaJIT"} :
          /\ iProgram = p
          /\ iVersion \in IF p = "RioLua"
                           THEN {<<"5",".","1",".","5">>, <<"5",".","3",".","4">>}
                           ELSE {<<"2",".","0",".","5">>}
    /\ iCl \in ClOutputs
    /\ iOpts \in IdentityOpts \X IdentityOpts
    /\ iIds = <<>>
    /\ iReload = NotReloaded
    /\ IdleResolve
    /\ IdlePatch
    /\ IdleMain
    /\ IdleAcquire

\* The identifiers of a release of the program under the options, and their hash.
IdentityOf(program, version, opts, cl) ==
    LET major == major_version_from_version(program, version)
        self == [source |-> "release", version |-> version,
                 major_version |-> major,
                 compat |-> set_compat(program, major, opts.compat)]
        ids == set_identifiers(program, self, opts, cl).identifiers
    IN  [identifiers |-> ids, hash |-> hash_identifiers(ids)]

\* set_identifiers and hash_identifiers for both requests
ComputeIdentities ==
    /\ iIds = <<>>
    /\ iIds' = <<IdentityOf(iProgram, iVersion, iOpts[1], iCl),
                 IdentityOf(iProgram, iVersion, iOpts[2], iCl)>>
    /\ UNCHANGED <<iProgram, iVersion, iCl, iOpts, iReload>>
    /\ UNCHANGED <<resolveVars, patchVars, mainVars, acquireVars>>

\* The names set_identifiers may write, in the order it writes them, and the
\* same names the other way round.
InsertionOrders ==
    LET names == <<"name", "source", "version", "repo", "commit", "target", "compat",
                   "c flags", "location", "major version", "vs year", "vs arch",
                   "readline", "patched">>
    IN  {names, [i \in 1..Len(names) |-> names[Len(names) + 1 - i]]}

\* The names the hash reads.
HashedNames ==
    LET names == important_identifiers \o other_identifiers
    IN  {names[i] : i \in 1..Len(names)}

\* Identifiers with the same values for the names the hash reads: as they
\* are, without the other names, with "" for each name that is missing, and
\* without the names whose value is "".
Variants == {"as set", "hashed only", "empty for missing", "missing for empty"}

VariantOf(identifiers, variant) ==
    CASE variant = "as set" -> identifiers
      [] variant = "hashed only" ->
            [k \in DOMAIN identifiers \cap HashedNames |-> identifiers[k]]
      [] variant = "empty for missing" ->
            [k \in DOMAIN identifiers \cup HashedNames |-> Get(identifiers, k, <<>>)]
      [] variant = "missing for empty" ->
            [k \in {n \in DOMAIN identifiers : identifiers[n] # <<>>} |-> identifiers[k]]

NextIdentity == ComputeIdentities

SpecIdentity == InitIdentity /\ [][NextIdentity]_vars

-----------------------------------------------------------------------------
(* The identity through the manifest: the identifiers of a request are saved *)
(* and loaded again.                                                         *)

InitReload ==
    /\ InitIdentity
    /\ iOpts[1] = iOpts[2]

\* save_installed_identifiers on the identifiers of the request, in one of the
\* forms and orders a dict may have.
Save ==
    /\ iIds # <<>>
    /\ iReload = NotReloaded
    /\ \E variant \in Variants, order \in InsertionOrders :
          \E d \in {VariantOf(iIds[1].identifiers, variant)} :
             iReload' = [variant |-> variant, saved |-> d,
                         text |-> json_dump(d, order), loaded |-> <<>>, done |-> FALSE]
    /\ UNCHANGED <<iProgram, iVersion, iCl, iOpts, iIds>>
    /\ UNCHANGED <<resolveVars, patchVars, mainVars, acquireVars>>

\* get_installed_identifiers on what has been saved
Load ==
    /\ iReload # NotReloaded
    /\ ~iReload.done
    /\ iReload' = [iReload EXCEPT !.loaded = json_load(iReload.text), !.done = TRUE]
    /\ UNCHANGED <<iProgram, iVersion, iCl, iOpts, iIds>>
    /\ UNCHANGED <<resolveVars, patchVars, mainVars, acquireVars>>

NextReload == ComputeIdentities \/ Save \/ Load

SpecReload == InitReload /\ [][NextReload]_vars




-----------------------------------------------------------------------------
(* fetch_repo on its own: one clone of a repository at a reference, for each  *)
(* program, with and without a downloads cache, under several versions of   *)
(* git.                                                                     *)

InitClone ==
    /\ cProgram \in Programs
    /\ cRepo \in {default_repo(cProgram)} \cup OtherRepos
    /\ cRef \in Refs
    /\ cEnv \in CloneEnvs
    /\ cRun = NotFetched
    /\ IdleResolve
    /\ IdlePatch
    /\ IdleIdentity
    /\ IdleMain
    /\ IdleFetch
    /\ IdleAux

\* self.fetch_repo(ref)
FetchRepo ==
    /\ cRun = NotFetched
    /\ cRun' = fetch_repo(cProgram, cRepo, cRef,
                          [downloads |-> cEnv.downloads,
                           no_git_cache |-> cEnv.no_git_cache,
                           repo_exists |-> cEnv.repo_exists,
                           ref_known |-> cEnv.ref_known,
                           on_branch |-> cEnv.on_branch,
                           version_output |->
                               IF cEnv.git_version = None THEN <<>>
                               ELSE git_version_output(cEnv.git_version, cEnv.suffix)])
    /\ UNCHANGED <<cProgram, cRepo, cRef, cEnv>>
    /\ UNCHANGED <<resolveVars, patchVars, identityVars, mainVars, fetchVars, auxVars>>

NextClone == FetchRepo

SpecClone == InitClone /\ [][NextClone]_vars

-----------------------------------------------------------------------------
(* Program.fetch on its own: one fetch of the sources of a program, with and  *)
(* without a downloads cache that may hold the archive, against mirrors that  *)
(* deliver, fail or break off, followed by the rest of the build.            *)

InitFetch ==
    /\ fProgram \in Programs
    /\ fSelf \in FetchSelves(fProgram)
    /\ fOpts \in [downloads : {None, DownloadsRoot}, ignore_checksums : BOOLEAN]
    /\ IF fSelf.source = "release"
       THEN /\ fNet \in [urls(fProgram, fSelf) -> Outcomes(get_file_name(fProgram, fSelf))]
            /\ fDir \in IF fOpts.downloads = None THEN {<<>>}
                        ELSE {<<>>,
                              get_file_name(fProgram, fSelf)
                                  :> Released(get_file_name(fProgram, fSelf)),
                              get_file_name(fProgram, fSelf)
                                  :> Tampered(get_file_name(fProgram, fSelf))}
       ELSE fNet = <<>> /\ fDir = <<>>
    /\ fRun = NotStarted
    /\ fPast = <<>>
    /\ IdleResolve
    /\ IdlePatch
    /\ IdleIdentity
    /\ IdleMain
    /\ IdleClone
    /\ IdleAux

\* self.fetch()
Fetch ==
    /\ fRun = NotStarted
    /\ \E r \in {Program_fetch(fProgram, fSelf, fOpts, fDir, fNet)} :
          /\ fRun' = [exit |-> r.exit, fetched |-> r.fetched, extracted |-> r.extracted,
                      log |-> r.log, built |-> FALSE, dir_before |-> fDir]
          /\ fDir' = r.dir
    /\ UNCHANGED <<fProgram, fSelf, fOpts, fNet, fPast>>
    /\ UNCHANGED <<resolveVars, patchVars, identityVars, mainVars, cloneVars, auxVars>>

\* What build() and install() do once self.fetch() has returned: the sources
\* in the scratch directory are compiled and installed.
BuildFetched ==
    /\ fRun # NotStarted
    /\ fRun.exit = "none"
    /\ ~fRun.built
    /\ fRun' = [fRun EXCEPT !.built = TRUE,
                            !.log = @ \o <<Did("compile", <<>>), Did("install", <<>>)>>]
    /\ UNCHANGED <<fProgram, fSelf, fOpts, fDir, fNet, fPast>>
    /\ UNCHANGED <<resolveVars, patchVars, identityVars, mainVars, cloneVars, auxVars>>

NextFetch ==
    \/ Fetch
    \/ BuildFetched

SpecFetch == InitFetch /\ [][NextFetch]_vars

MaxLaterRuns == 2

\* The mirrors of a release when all of them serve the released archive.
Healthy(program, self) ==
    [u \in urls(program, self) |->
        [kind |-> "ok", contents |-> Released(get_file_name(program, self))]]

\* A later run of hererocks for the same release with the same downloads
\* cache: the run before has ended, the user chooses --ignore-checksums anew,
\* and the mirrors do as before or have recovered.
LaterRun ==
    /\ fRun # NotStarted
    /\ fSelf.source = "release"
    /\ fRun.exit # "none" \/ fRun.built
    /\ Len(fPast) < MaxLaterRuns
    /\ fPast' = Append(fPast, [opts |-> fOpts, exit |-> fRun.exit, log |-> fRun.log,
                               dir |-> fDir, dir_before |-> fRun.dir_before])
    /\ fRun' = NotStarted
    /\ fOpts' \in [downloads : {fOpts.downloads}, ignore_checksums : BOOLEAN]
    /\ fNet' \in {fNet, Healthy(fProgram, fSelf)}
    /\ UNCHANGED <<fProgram, fSelf, fDir>>
    /\ UNCHANGED <<resolveVars, patchVars, identityVars, mainVars, cloneVars, auxVars>>

NextRefetch ==
    \/ Fetch
    \/ BuildFetched
    \/ LaterRun

SpecRefetch == InitFetch /\ [][NextRefetch]_vars

-----------------------------------------------------------------------------
(* run() on its own: one call, capturing or not, verbose or not, of a command *)
(* that cannot be started, succeeds or fails, with some output.              *)

InitCommand ==
    /\ cmdCall \in [capture : BOOLEAN, verbose : BOOLEAN, command : Commands]
    /\ cmdRun = NotCalled
    /\ IdleResolve
    /\ IdlePatch
    /\ IdleIdentity
    /\ IdleMain
    /\ IdleClone
    /\ IdleFetch
    /\ IdleCompat
    /\ IdleSide

\* run(...) and get_output(...)
Run ==
    /\ cmdRun = NotCalled
    /\ cmdRun' = IF cmdCall.capture THEN get_output(cmdCall.verbose, cmdCall.command)
                  ELSE run(FALSE, cmdCall.verbose, cmdCall.command)
    /\ UNCHANGED <<cmdCall, compatVars, sideVars>>
    /\ UNCHANGED <<resolveVars, patchVars, identityVars, mainVars, cloneVars, fetchVars>>

NextCommand == Run

SpecCommand == InitCommand /\ [][NextCommand]_vars

-----------------------------------------------------------------------------
(* The compatibility mode on its own: the construction of one interpreter    *)
(* from a release under each value of --compat.                              *)

CompatVersions(program) ==
    IF program = "RioLua"
    THEN {<<"5",".","1",".","5">>, <<"5",".","2",".","4">>, <<"5",".","3",".","4">>}
    ELSE {<<"2",".","0",".","5">>, <<"2",".","1",".","0","-","b","e","t","a","3">>}

InitCompat ==
    /\ kProgram \in {"RioLua", "LuaJIT"}
    /\ kVersion \in CompatVersions(kProgram)
    /\ kOpts \in [location : Locations, target : {str_linux, str_posix},
                   compat : AllCompats, cflags : CFlags,
                   patch : BOOLEAN, no_readline : {FALSE}]
    /\ kSelf = NotSet
    /\ IdleResolve
    /\ IdlePatch
    /\ IdleIdentity
    /\ IdleMain
    /\ IdleClone
    /\ IdleFetch
    /\ IdleCommand
    /\ IdleSide

\* Lua.__init__ from the major version on, and set_identifiers
LuaInit ==
    /\ kSelf = NotSet
    /\ \E major \in {major_version_from_version(kProgram, kVersion)} :
       \E compat \in {set_compat(kProgram, major, kOpts.compat)} :
       \E switches \in {add_compat_cflags_and_redefines(kProgram, major, compat)} :
          kSelf' = [major_version |-> major,
                    compat |-> compat,
                    compat_cflags |-> switches.compat_cflags,
                    redefines |-> switches.redefines,
                    identifiers |->
                        set_identifiers(kProgram,
                                        [source |-> "release", version |-> kVersion,
                                         major_version |-> major, compat |-> compat],
                                        kOpts, ClUnknown).identifiers]
    /\ UNCHANGED <<kProgram, kVersion, kOpts, commandVars, sideVars>>
    /\ UNCHANGED <<resolveVars, patchVars, identityVars, mainVars, cloneVars, fetchVars>>

NextCompat == LuaInit

SpecCompat == InitCompat /\ [][NextCompat]_vars

-----------------------------------------------------------------------------
(* main(): runs of hererocks one after the other on the same disk.  Each run  *)
(* loads the manifest, executes the block of each package requested, and      *)
(* ends with "Done.", with a fatal error or with an uncaught exception.       *)

Init ==
    /\ \E m \in InitialManifests(<<"/","a","-","b">>) :
          /\ manifest = [l \in MainLocations |->
                            IF l = <<"/","a","-","b">> THEN m ELSE FileMissing]
          /\ installed = [l \in MainLocations |->
                         IF l = <<"/","a","-","b">> /\ m.kind = "object"
                         THEN StaleFiles ELSE NoFiles]
    /\ buildCache = <<>>
    /\ nruns = 0
    /\ pc = "idle"
    /\ cmdline = NoOpts
    /\ allIdentifiers = <<>>
    /\ status = "none"
    /\ progs = NoRun.progs
    /\ startManifest = FileMissing
    /\ prev = NoRun
    /\ built = {}
    /\ startDisk = <<>>
    /\ manifestIO = NoIO
    /\ tempDir = NoTemp
    /\ IdleResolve
    /\ IdlePatch
    /\ IdleIdentity
    /\ IdleAcquire

\* The block of main() that follows the block before: the next package asked for.
first_block(o) ==
    IF o.lua # None THEN "lua"
    ELSE IF o.luajit # None THEN "luajit"
    ELSE IF o.luarocks # None THEN "luarocks" ELSE "end"

\* A block that is entered again once it has ended.
after_block_again(o, block) == block

after_block(o, block) ==
    IF block = "lua" /\ o.luajit # None THEN "luajit"
    ELSE IF block \in {"lua", "luajit"} /\ o.luarocks # None THEN "luarocks"
    ELSE "end"

\* A removal that leaves the directory where it is.
remove_dir_later(temp) == temp

\* remove_dir(temp_dir)
remove_dir(temp) ==
    [created |-> temp.created, removed |-> temp.removed + 1, exists |-> FALSE,
     holds |-> {}]

\* tempfile.mkdtemp()
mkdtemp == [created |-> 1, removed |-> 0, exists |-> TRUE, holds |-> {}]

\* The tests of main() that end in parser.error
usage_error(o) ==
    \/ o.lua = None /\ o.luajit = None /\ o.luarocks = None /\ ~o.show
    \/ o.lua # None /\ o.luajit # None
    \/ (o.lua # None \/ o.luajit # None \/ o.luarocks # None) /\ o.show

\* os.path.exists(opts.location): the location exists when something was
\* written into it.
location_exists(file, location_files) ==
    file.kind # "missing" \/ location_files # NoFiles

\* main() from the command line to write_activation_scripts(): the options are
\* parsed; a command line the parser rejects ends the run (exit status 2);
\* --show loads the manifest of an existing location, prints it and ends the
\* run (exit status 0); otherwise the scratch directory is made, the manifest
\* of the location is loaded and bin/ and the activation scripts are written.
StartRun ==
    /\ pc = "idle"
    /\ nruns < MaxRuns
    /\ \E o \in CommandLines :
       \E loaded \in {get_installed_identifiers(manifest[o.location])} :
          /\ cmdline' = o
          /\ startManifest' = manifest[o.location]
          /\ startDisk' = [installed |-> installed[o.location], buildCache |-> buildCache]
          /\ IF usage_error(o)
             THEN /\ status' = "usage"
                  /\ pc' = "idle"
                  /\ allIdentifiers' = <<>>
                  /\ manifestIO' = NoIO
                  /\ tempDir' = NoTemp
                  /\ UNCHANGED installed
             ELSE IF o.show
             THEN IF location_exists(manifest[o.location], installed[o.location])
                  THEN /\ status' = IF loaded.crash THEN "crashed" ELSE "shown"
                       /\ pc' = "idle"
                       /\ allIdentifiers' = loaded.identifiers
                       /\ manifestIO' = [reads |-> 1, writes |-> 0]
                       /\ tempDir' = NoTemp
                       /\ UNCHANGED installed
                  ELSE /\ status' = "shown"
                       /\ pc' = "idle"
                       /\ allIdentifiers' = <<>>
                       /\ manifestIO' = NoIO
                       /\ tempDir' = NoTemp
                       /\ UNCHANGED installed
             ELSE /\ status' = IF loaded.crash THEN "crashed" ELSE "running"
                  /\ pc' = IF loaded.crash THEN "idle" ELSE first_block(o)
                  /\ allIdentifiers' = loaded.identifiers
                  /\ manifestIO' = [reads |-> 1, writes |-> 0]
                  /\ tempDir' = mkdtemp
                  /\ installed' = IF loaded.crash THEN installed
                                  ELSE [installed EXCEPT ![o.location].scripts = TRUE]
    /\ nruns' = nruns + 1
    /\ prev' = [opts |-> cmdline, status |-> status, progs |-> progs]
    /\ progs' = NoRun.progs
    /\ UNCHANGED <<manifest, buildCache, built>>
    /\ UNCHANGED <<resolveVars, patchVars, identityVars, acquireVars>>

\* The tree a build from the sources would give for the request.
fresh_build(program, self, all_identifiers, location_files) ==
    build(program, self, [cmdline EXCEPT !.builds = None], all_identifiers, <<>>,
          location_files, ClUnknown, "none").tree

\* What 'git rev-parse HEAD' may give after fetch_repo; None when the version
\* is no git reference.
fetched_commits(program, version) ==
    IF Program_init(program, version, ExistingPaths).source = "git"
    THEN Commits ELSE {None}

\* The run ended by sys.exit before update_identifiers was called.
not_updated(all_identifiers, cache, files) ==
    [result |-> "exit", all_identifiers |-> all_identifiers, cache |-> cache,
     files |-> files, events |-> <<>>]

\* A test that saves the manifest whenever update_identifiers has returned.
returned_at_all(u) == u.result # "exit"

\* "if <Program>(...).update_identifiers(identifiers):": update_identifiers
\* has returned True.
returned_true(u) == u.result = "installed"

\* One block of main(): "if opts.<package>:" with the deletion of the other
\* interpreter's entry, the construction of the program, update_identifiers
\* and save_installed_identifiers.
Block(program, version, block) ==
    /\ pc = block
    /\ \E commit \in fetched_commits(program, version), fail \in {"none", "make"} :
       \E all0 \in {IF program = "RioLua" THEN without(allIdentifiers, "LuaJIT")
                    ELSE IF program = "LuaJIT" THEN without(allIdentifiers, "lua")
                    ELSE allIdentifiers} :
       \E new \in {Program_new(program, version, cmdline, commit)} :
       \E ids \in {IF new.source = "exit" THEN [exit |-> TRUE, identifiers |-> <<>>]
                   ELSE set_identifiers(program, new, cmdline, ClUnknown)} :
       \E self \in {[identifiers |-> ids.identifiers] @@ new} :
       \E u \in {IF ids.exit THEN not_updated(all0, buildCache, installed[cmdline.location])
                 ELSE update_identifiers(program, self, cmdline, all0, buildCache,
                                         installed[cmdline.location], ClUnknown, fail)} :
       \E saved \in {save_installed_identifiers(u.all_identifiers)} :
          /\ progs' = [progs EXCEPT ![name(program)] =
                [result |-> IF new.source = "exit" \/ ids.exit THEN "exit" ELSE u.result,
                 self |-> self,
                 entry_before |-> Get(all0, name(program), NoEntry),
                 events |-> IF new.source = "exit" \/ ids.exit THEN <<>> ELSE u.events,
                 fresh |-> IF new.source = "exit" THEN NoTree
                           ELSE fresh_build(program, self, all0,
                                            installed[cmdline.location])]]
          /\ IF new.source = "exit" \/ ids.exit
             THEN /\ status' = "fatal"
                  /\ pc' = "idle"
                  /\ allIdentifiers' = all0
                  /\ UNCHANGED <<diskVars, built, manifestIO, tempDir>>
             ELSE /\ buildCache' = u.cache
                  /\ tempDir' = IF "fetch" \in {u.events[i] : i \in DOMAIN u.events}
                                 THEN [tempDir EXCEPT !.holds = @ \cup {name(program)}]
                                 ELSE tempDir
                  /\ installed' = [installed EXCEPT ![cmdline.location] = u.files]
                  /\ built' = IF "compile" \in {u.events[i] : i \in DOMAIN u.events}
                                 /\ program # "LuaRocks"
                                 /\ cmdline.builds # None /\ new.source # "local"
                              THEN built \cup {[identifiers |-> self.identifiers,
                                                run |-> nruns]}
                              ELSE built
                  /\ IF returned_true(u)
                     THEN /\ allIdentifiers' = saved
                          /\ manifest' = [manifest EXCEPT ![cmdline.location] =
                                              FileObject(saved)]
                          /\ manifestIO' = [manifestIO EXCEPT !.writes = @ + 1]
                     ELSE /\ allIdentifiers' = u.all_identifiers
                          /\ UNCHANGED <<manifest, manifestIO>>
                  /\ status' = IF u.result = "exit" THEN "fatal" ELSE status
                  /\ pc' = IF u.result = "exit" THEN "idle" ELSE after_block(cmdline, block)
    /\ UNCHANGED <<nruns, cmdline, startManifest, prev, startDisk>>
    /\ UNCHANGED <<resolveVars, patchVars, identityVars, acquireVars>>

\* if opts.lua: ...
InstallLua == Block("RioLua", cmdline.lua, "lua")

\* if opts.luajit: ...
InstallLuaJIT == Block("LuaJIT", cmdline.luajit, "luajit")

\* if opts.luarocks: ...
InstallLuaRocks == Block("LuaRocks", cmdline.luarocks, "luarocks")

\* remove_dir(temp_dir); print("Done."); sys.exit(0)
Finish ==
    /\ pc = "end"
    /\ tempDir' = remove_dir(tempDir)
    /\ status' = "done"
    /\ pc' = "idle"
    /\ UNCHANGED <<diskVars, nruns, cmdline, allIdentifiers, progs, startManifest, prev,
                   built, startDisk, manifestIO>>
    /\ UNCHANGED <<resolveVars, patchVars, identityVars, acquireVars>>

Next ==
    \/ StartRun
    \/ InstallLua
    \/ InstallLuaJIT
    \/ InstallLuaRocks
    \/ Finish

Spec == Init /\ [][Next]_vars

\* main() is straight-line code: once a run has started, its next block is
\* taken as soon as the calls of the one before have returned.  Starting
\* another run is left to the user; the runs followed here are the first on
\* each of the initial disks.
FirstRun == nruns = 0 /\ StartRun

NextOneRun ==
    \/ FirstRun
    \/ InstallLua
    \/ InstallLuaJIT
    \/ InstallLuaRocks
    \/ Finish

FairSpec ==
    /\ Init
    /\ [][NextOneRun]_vars
    /\ WF_vars(InstallLua \/ InstallLuaJIT \/ InstallLuaRocks \/ Finish)

(***************************************************************************)
(* Installing over an installed interpreter: Program.update_identifiers,   *)
(* Program.install, RioLua.make_install and the save in main(), with the    *)
(* three directories of the install root told apart                        *)
(***************************************************************************)

MaxInstallRuns == 3

\* Where an install run can be ended by an error: nowhere, in the compiler,
\* or in the copy_files call into the directory named.
InstallFailures == {"none", "make", "bin", "include", "lib"}

\* hererocks <location> --lua <version> [--compat none] [--ignore-installed]
InstallOpts ==
    {rest @@ PlainOpts(v, None, None, FALSE) :
        v \in {str_5_1, str_5_3},
        rest \in [compat : {str_default, str_none}, ignore_installed : BOOLEAN]}

\* RioLua.make_install: copy_files into bin, include and lib, in that order.
\* A copy that raises leaves its directory and those after it as they were;
\* the directories before it hold the files of this install.
RioLua_make_install(root, identifiers, fail) ==
    [bin |-> IF fail = "bin" THEN root.bin ELSE identifiers,
     include |-> IF fail \in {"bin", "include"} THEN root.include ELSE identifiers,
     lib |-> IF fail \in {"bin", "include", "lib"} THEN root.lib ELSE identifiers]

InitInstall ==
    /\ nRoot = NoRoot
    /\ nManifest = <<>>
    /\ nRun = NoInstallRun
    /\ IdleResolve
    /\ IdlePatch
    /\ IdleIdentity
    /\ IdleMain
    /\ IdleClone
    /\ IdleFetch
    /\ IdleCommand
    /\ IdleCompat
    /\ IdleOverlap

\* One run of main() with --lua: the manifest is loaded, update_identifiers
\* returns False for an identity already installed and otherwise builds,
\* installs, and records the identity, and main() saves the manifest when
\* update_identifiers returned True.  An error in build() or install() ends
\* the run there.
RunInstall ==
    /\ nRun.count < MaxInstallRuns
    /\ \E o \in InstallOpts, fail \in InstallFailures :
       \E new \in {Program_new("RioLua", o.lua, o, <<>>)} :
       \E ids \in {set_identifiers("RioLua", new, o, ClUnknown)} :
       \E self \in {[identifiers |-> ids.identifiers] @@ new} :
       \E all_identifiers \in {without(nManifest, "LuaJIT")} :
          IF already_installed(self, o, Get(all_identifiers, "lua", NoEntry))
          THEN /\ nRun' = [count |-> nRun.count + 1, result |-> "skipped",
                           request |-> self.identifiers]
               /\ UNCHANGED <<nRoot, nManifest>>
          ELSE IF fail = "make"
          THEN /\ nRun' = [count |-> nRun.count + 1, result |-> "exit",
                           request |-> self.identifiers]
               /\ UNCHANGED <<nRoot, nManifest>>
          ELSE /\ nRoot' = RioLua_make_install(nRoot, self.identifiers, fail)
               /\ nManifest' =
                     IF fail = "none"
                     THEN save_installed_identifiers(
                              ("lua" :> self.identifiers) @@ all_identifiers)
                     ELSE nManifest
               /\ nRun' = [count |-> nRun.count + 1,
                           result |-> IF fail = "none" THEN "installed" ELSE "exit",
                           request |-> self.identifiers]
    /\ UNCHANGED <<commandVars, compatVars, overlapVars>>
    /\ UNCHANGED <<resolveVars, patchVars, identityVars, mainVars, cloneVars, fetchVars>>

NextInstall == RunInstall

SpecInstall == InitInstall /\ [][NextInstall]_vars

(***************************************************************************)
(* Two runs of main() on one install root and one build cache.  Each run   *)
(* is followed from one access to the shared disk to the next.             *)
(***************************************************************************)

Procs == {1, 2}

\* hererocks <location> --builds <dir> with --lua 5.1, --lua 5.3 or
\* --luarocks 2.4
OverlapRequests ==
    {[program |-> "RioLua",
      opts |-> [builds |-> BuildsRoot] @@ PlainOpts(str_5_1, None, None, FALSE)],
     [program |-> "RioLua",
      opts |-> [builds |-> BuildsRoot] @@ PlainOpts(str_5_3, None, None, FALSE)],
     [program |-> "LuaRocks",
      opts |-> [builds |-> BuildsRoot]
                  @@ PlainOpts(None, None, <<"2",".","4">>, FALSE)]}

\* The Program object of a request, with its identifiers.
RequestSelf(r) ==
    With(Program_new(r.program,
                     IF r.program = "RioLua" THEN r.opts.lua ELSE r.opts.luarocks,
                     r.opts, <<>>),
         LAMBDA new :
             [identifiers |-> set_identifiers(r.program, new, r.opts,
                                              ClUnknown).identifiers] @@ new)

\* self.cached_build_path, None when the build cache is not used
cached_build_path(program, self, opts) ==
    IF program # "LuaRocks" /\ opts.builds # None /\ self.source # "local"
    THEN hash_identifiers(self.identifiers) ELSE None

\* The manifest and the build cache a run of --lua 5.1 leaves behind.
Lua51 == CHOOSE r \in OverlapRequests : r.program = "RioLua" /\ r.opts.lua = str_5_1

\* A file that takes what is written next to what it holds.
write_manifest_merging(file, all_identifiers, p) ==
    ManifestOf(save_installed_identifiers(all_identifiers) @@ file.data, p)

\* save_installed_identifiers as run p calls it: open(..., "w") and json.dump
\* replace the file by the dict of the run.
write_manifest(file, all_identifiers, p) ==
    ManifestOf(save_installed_identifiers(all_identifiers), p)

InitOverlap ==
    /\ \E before \in BOOLEAN :
          /\ xManifest =
                IF before
                THEN ManifestOf(save_installed_identifiers(
                                    "lua" :> RequestSelf(Lua51).identifiers), 0)
                ELSE ManifestOf(<<>>, 0)
          /\ xCache =
                IF before
                THEN {cached_build_path("RioLua", RequestSelf(Lua51), Lua51.opts)}
                ELSE {}
    /\ xProc \in [Procs -> {[request |-> r, self |-> RequestSelf(r), pc |-> "start",
                             mem |-> <<>>, reads |-> 0, writes |-> 0,
                             missed |-> FALSE, stored |-> FALSE] :
                            r \in OverlapRequests}]
    /\ IdleResolve
    /\ IdlePatch
    /\ IdleIdentity
    /\ IdleMain
    /\ IdleClone
    /\ IdleFetch
    /\ IdleCommand
    /\ IdleCompat
    /\ IdleInstall

\* What every step of a run leaves alone.
OverlapFrame ==
    /\ UNCHANGED <<commandVars, compatVars, installVars>>
    /\ UNCHANGED <<resolveVars, patchVars, identityVars, mainVars, cloneVars, fetchVars>>

\* identifiers = get_installed_identifiers(), and the del of the other
\* interpreter's entry in the block of the run
LoadManifest(p) ==
    /\ xProc[p].pc = "start"
    /\ xProc' = [xProc EXCEPT
          ![p].mem = IF xProc[p].request.program = "RioLua"
                     THEN without(xManifest.data, "LuaJIT") ELSE xManifest.data,
          ![p].reads = @ + 1,
          ![p].pc = "update"]
    /\ UNCHANGED <<xManifest, xCache>>
    /\ OverlapFrame

\* update_identifiers up to the test of the build cache in build(): LuaRocks
\* exits without an interpreter in the dict, an identity already in the dict
\* is skipped and the run ends ("skipped"; "done" is a run that installed),
\* a directory found in the build cache is used.
BeginUpdate(p) ==
    /\ xProc[p].pc = "update"
    /\ \E r \in {xProc[p].request}, self \in {xProc[p].self} :
       \E path \in {cached_build_path(r.program, self, r.opts)} :
          xProc' = [xProc EXCEPT
             ![p].pc =
                 IF r.program = "LuaRocks" /\ lua_identifiers(xProc[p].mem) = NoEntry
                 THEN "exit"
                 ELSE IF already_installed(self, r.opts,
                                           Get(xProc[p].mem, name(r.program), NoEntry))
                 THEN "skipped"
                 ELSE IF path # None /\ path \in xCache THEN "install"
                 ELSE "make",
             ![p].missed =
                 /\ ~(r.program = "LuaRocks" /\ lua_identifiers(xProc[p].mem) = NoEntry)
                 /\ ~already_installed(self, r.opts,
                                       Get(xProc[p].mem, name(r.program), NoEntry))
                 /\ path # None
                 /\ path \notin xCache]
    /\ UNCHANGED <<xManifest, xCache>>
    /\ OverlapFrame

\* The rest of build(): fetch, make, and copy_dir(".", self.cached_build_path),
\* which is shutil.copytree and raises when the directory is there.
StoreBuild(p) ==
    /\ xProc[p].pc = "make"
    /\ \E r \in {xProc[p].request}, self \in {xProc[p].self} :
       \E path \in {cached_build_path(r.program, self, r.opts)} :
          IF path = None
          THEN /\ xProc' = [xProc EXCEPT ![p].pc = "install"]
               /\ UNCHANGED xCache
          ELSE IF path \in xCache
          THEN /\ xProc' = [xProc EXCEPT ![p].pc = "crashed"]
               /\ UNCHANGED xCache
          ELSE /\ xProc' = [xProc EXCEPT ![p].pc = "install", ![p].stored = TRUE]
               /\ xCache' = xCache \cup {path}
    /\ UNCHANGED xManifest
    /\ OverlapFrame

\* install(), all_identifiers[self.name] = self.identifiers, and the
\* save_installed_identifiers of main(); nothing is left to do but "Done.".
SaveManifest(p) ==
    /\ xProc[p].pc = "install"
    /\ \E all_identifiers \in
            {(name(xProc[p].request.program) :> xProc[p].self.identifiers)
                 @@ xProc[p].mem} :
          /\ xManifest' = write_manifest(xManifest, all_identifiers, p)
          /\ xProc' = [xProc EXCEPT
                ![p].mem = save_installed_identifiers(all_identifiers),
                ![p].writes = @ + 1,
                ![p].pc = "done"]
    /\ UNCHANGED xCache
    /\ OverlapFrame

NextOverlap ==
    \/ \E p \in Procs : LoadManifest(p)
    \/ \E p \in Procs : BeginUpdate(p)
    \/ \E p \in Procs : StoreBuild(p)
    \/ \E p \in Procs : SaveManifest(p)

SpecOverlap == InitOverlap /\ [][NextOverlap]_vars

-----------------------------------------------------------------------------
(* Claims about the resolver *)

\* The alias table entry of the version string given, read from the table itself.
AliasTarget == translations(rProgram)[rVersion]
IsAlias == rVersion \in DOMAIN translations(rProgram)
Translated == IF IsAlias THEN AliasTarget ELSE rVersion
Constructed == rSelf # NotConstructed
IsRelease(v) == rSelf.source = "release" /\ rSelf.version = v

C10_ClassificationOrder ==
    Constructed =>
        LET isVersion == Translated \in versions(rProgram)
            hasAt == Contains(Translated, "@")
            exists == Translated \in rPaths
        IN  /\ rSelf.source \in {"release", "git", "local", "exit"}
            /\ rSelf.source = "release" <=> isVersion
            /\ rSelf.source = "git" <=> (~isVersion /\ hasAt)
            /\ rSelf.source = "local" <=> (~isVersion /\ ~hasAt /\ exists)
            /\ rSelf.source = "exit" <=> (~isVersion /\ ~hasAt /\ ~exists)
            /\ (Contains(rVersion, "@") /\ rVersion \in rPaths) => rSelf.source = "git"
            /\ rSelf.source = "release" =>
                    /\ rSelf.version # None
                    /\ rSelf.repo = None /\ rSelf.path = None /\ rSelf.bad = None
            /\ rSelf.source = "git" =>
                    /\ rSelf.repo # None /\ rSelf.ref # None
                    /\ rSelf.version = None /\ rSelf.path = None /\ rSelf.bad = None
            /\ rSelf.source = "local" =>
                    /\ rSelf.path = rVersion
                    /\ rSelf.version = None /\ rSelf.repo = None /\ rSelf.bad = None
            /\ rSelf.source = "exit" =>
                    /\ rSelf.bad = rVersion
                    /\ rSelf.version = None /\ rSelf.repo = None /\ rSelf.path = None

\* C10 witness: a string with '@' that names an existing directory has been
\* classified as a git reference.
C10_Witness ==
    /\ rVersion = <<"d","@","r">>
    /\ rVersion \in rPaths
    /\ Constructed
    /\ rSelf.source = "git"

\* C11: a version string with '@' is split at the first '@' into repository
\* and reference; an empty repository part gives the program's default
\* repository and an empty reference part gives "master", in every
\* combination: "@", "@ref", "repo@ref" and "repo@".
C11_GitDefaults ==
    (Constructed /\ rSelf.source = "git") =>
        LET parts == partition(Translated, "@")
        IN  /\ rSelf.repo = IF parts[1] = <<>> THEN default_repo(rProgram) ELSE parts[1]
            /\ rSelf.ref = IF parts[3] = <<>> THEN master ELSE parts[3]

-----------------------------------------------------------------------------
(* Claims about the clone strategy *)

Cloned == cRun # NotFetched /\ cRun.command # <<>>

\* The scheme and the host of a URL, read from the URL.
UrlScheme(url) == partition(url, ":")[1]
UrlHost(url) ==
    LET rest == partition(url, ":")[3]
    IN  IF StartsWith(rest, <<"/","/">>)
        THEN partition(SubSeq(rest, 3, Len(rest)), "/")[1] ELSE <<>>

WhitelistedHosts ==
    {<<"g","i","t","h","u","b",".","c","o","m">>,
     <<"b","i","t","b","u","c","k","e","t",".","c","o","m">>}

OutsideWhitelist(url) ==
    /\ UrlScheme(url) \in {<<"h","t","t","p">>, <<"h","t","t","p","s">>}
    /\ UrlHost(url) \notin WhitelistedHosts

AllHex(ref) ==
    \A i \in 1..Len(ref) :
        ref[i] \in {"0","1","2","3","4","5","6","7","8","9",
                    "a","b","c","d","e","f","A","B","C","D","E","F"}

\* git is at least 1.7.10, read from the version of git itself.
GitAtLeast_1_7_10 ==
    /\ cEnv.git_version # None
    /\ cEnv.git_version[1] * 10000 + cEnv.git_version[2] * 100 + cEnv.git_version[3]
          >= 10710

\* C12: the clone is a full clone with a checkout to follow when the
\* repository is staged into the downloads cache, or the URL is http(s) from a
\* host outside the whitelist, or the reference consists of hexadecimal digits
\* only, whatever the whitelist and the version of git; otherwise it is a
\* shallow clone of the reference without a checkout when git is at least
\* 1.7.10, and a shallow clone followed by a checkout when git is older.  The
\* checkout that has to follow is run by fetch_repo unless the reference is
\* "master".
C12_CloneStrategy ==
    Cloned =>
        /\ IF cRun.in_downloads \/ OutsideWhitelist(cRepo) \/ AllHex(cRef)
           THEN /\ cRun.command = <<str_git, str_clone>>
                /\ cRun.need_checkout
           ELSE IF GitAtLeast_1_7_10
           THEN /\ cRun.command = <<str_git, str_clone, str_depth, str_branch \o cRef>>
                /\ ~cRun.need_checkout
           ELSE /\ cRun.command = <<str_git, str_clone, str_depth>>
                /\ cRun.need_checkout
        /\ cRun.ran = IF cRun.need_checkout /\ cRef # master
                      THEN <<"clone", "checkout">> ELSE <<"clone">>

\* C12 witness: a reference of hexadecimal digits has been cloned from a
\* whitelisted host into the scratch directory with a git that takes tags, by
\* a full clone and a checkout.
C12_Witness ==
    /\ Cloned
    /\ cRef = <<"a","b","c","1">>
    /\ ~cRun.in_downloads
    /\ ~OutsideWhitelist(cRepo)
    /\ UrlScheme(cRepo) = <<"h","t","t","p","s">>
    /\ GitAtLeast_1_7_10
    /\ cRun.command = <<str_git, str_clone>>
    /\ cRun.ran = <<"clone", "checkout">>

\* The repository is the default one of the program, git caching is on and
\* there is a downloads directory.
Persistent ==
    /\ cRepo = default_repo(cProgram)
    /\ ~cEnv.no_git_cache
    /\ cEnv.downloads # None

\* The git commands that change the repository, in the order they were run.
Changing == SelectSeq(cRun.ran, LAMBDA c : c # "rev-parse")

\* C22: the clone kept in the downloads directory is used exactly when the
\* repository is the program's default one, git caching is on and there is a
\* downloads directory.  When it exists already the commands are, in this
\* order, 'git fetch' if and only if the reference does not resolve there,
\* 'git checkout' of the reference, and 'git pull --rebase' if and only if
\* HEAD is a branch after the checkout, and nothing is cloned; when it does
\* not exist the repository is cloned there.  In every other case the
\* repository is cloned into the scratch directory.
C22_CachedRepoSync ==
    cRun # NotFetched =>
        /\ cRun.in_downloads <=> Persistent
        /\ cRun.fetched <=> ~Persistent
        /\ (Persistent /\ cEnv.repo_exists) =>
              /\ cRun.command = <<>>
              /\ Changing = (IF cEnv.ref_known THEN <<>> ELSE <<"fetch">>)
                                \o <<"checkout">>
                                \o (IF cEnv.on_branch THEN <<"pull">> ELSE <<>>)
        /\ ~(Persistent /\ cEnv.repo_exists) =>
              /\ cRun.command # <<>>
              /\ Changing[1] = "clone"
              /\ \A i \in DOMAIN Changing : Changing[i] \in {"clone", "checkout"}

\* C22 witness: the clone in the downloads directory existed without the
\* reference, and has been fetched, checked out on a branch and pulled.
C22_Witness ==
    /\ cRun # NotFetched
    /\ Persistent
    /\ cEnv.repo_exists
    /\ cRun.ran = <<"rev-parse", "fetch", "checkout", "pull">>

-----------------------------------------------------------------------------
(* Claims about run() *)

Called == cmdRun # NotCalled
Failed == cmdCall.command.started /\ cmdCall.command.returncode # 0

-----------------------------------------------------------------------------
(* Claims about the compatibility mode *)

\* The effective mode and the switches, by interpreter, major version and
\* --compat, written out.
CompatTable(program, major, requested) ==
    IF program = "LuaJIT"
    THEN IF requested \in {<<"a","l","l">>, <<"5",".","2">>}
         THEN [compat |-> <<"5",".","2">>,
               switches |-> {"-DLUAJIT_ENABLE_LUA52COMPAT"}, undefs |-> 0]
         ELSE [compat |-> <<"d","e","f","a","u","l","t">>, switches |-> {}, undefs |-> 0]
    ELSE IF major = <<"5",".","1">>
    THEN IF requested = <<"n","o","n","e">>
         THEN [compat |-> <<"n","o","n","e">>, switches |-> {}, undefs |-> 5]
         ELSE [compat |-> <<"d","e","f","a","u","l","t">>, switches |-> {}, undefs |-> 0]
    ELSE IF major = <<"5",".","2">>
    THEN IF requested \in {<<"n","o","n","e">>, <<"5",".","2">>}
         THEN [compat |-> <<"n","o","n","e">>, switches |-> {}, undefs |-> 0]
         ELSE [compat |-> <<"d","e","f","a","u","l","t">>,
               switches |-> {"-DLUA_COMPAT_ALL"}, undefs |-> 0]
    ELSE CASE requested \in {<<"d","e","f","a","u","l","t">>, <<"5",".","2">>} ->
                 [compat |-> <<"d","e","f","a","u","l","t">>,
                  switches |-> {"-DLUA_COMPAT_5_2"}, undefs |-> 0]
           [] requested = <<"5",".","1">> ->
                 [compat |-> <<"5",".","1">>,
                  switches |-> {"-DLUA_COMPAT_5_1"}, undefs |-> 0]
           [] requested = <<"a","l","l">> ->
                 [compat |-> <<"a","l","l">>,
                  switches |-> {"-DLUA_COMPAT_5_1", "-DLUA_COMPAT_5_2"}, undefs |-> 0]
           [] requested = <<"n","o","n","e">> ->
                 [compat |-> <<"n","o","n","e">>, switches |-> {}, undefs |-> 0]

\* C26: the effective compatibility mode and the preprocessor switches are
\* those of the table for the interpreter, its major version and the value
\* of --compat, whatever the other options; the five legacy macros are
\* undefined only for Lua 5.1 with 'none'; and the identifiers hold the
\* effective mode.
C26_CompatMapping ==
    kSelf # NotSet =>
        LET row == CompatTable(kProgram, SubSeq(kVersion, 1, 3), kOpts.compat)
        IN  /\ kSelf.compat = row.compat
            /\ {kSelf.compat_cflags[i] : i \in DOMAIN kSelf.compat_cflags} = row.switches
            /\ Len(kSelf.compat_cflags) = Cardinality(row.switches)
            /\ Len(kSelf.redefines) = row.undefs
            /\ row.undefs = 5 =>
                  {kSelf.redefines[i] : i \in DOMAIN kSelf.redefines}
                      = {"#undef LUA_COMPAT_VARARG", "#undef LUA_COMPAT_MOD",
                         "#undef LUA_COMPAT_LSTR", "#undef LUA_COMPAT_GFIND",
                         "#undef LUA_COMPAT_OPENLIB"}
            /\ kSelf.identifiers["compat"] = row.compat

\* C26 witness: Lua 5.2 has been constructed with --compat 5.2, which turns
\* into 'none' without a switch, and the identifiers hold 'none'.
C26_Witness ==
    /\ kSelf # NotSet
    /\ kProgram = "RioLua"
    /\ SubSeq(kVersion, 1, 3) = <<"5",".","2">>
    /\ kOpts.compat = <<"5",".","2">>
    /\ kSelf.compat = <<"n","o","n","e">>
    /\ kSelf.compat_cflags = <<>>
    /\ kSelf.identifiers["compat"] = <<"n","o","n","e">>

-----------------------------------------------------------------------------
(* Claims about fetching a release *)

ReleaseFetched == fRun # NotStarted /\ fSelf.source = "release"
FileName == get_file_name(fProgram, fSelf)
FetchEvents == {fRun.log[i].event : i \in DOMAIN fRun.log}

\* The URLs of the mirrors in the order of the list, and the URLs asked in
\* the order of asking.
Mirrors ==
    [i \in 1..Len(downloads(fProgram)) |->
        get_download_url(fProgram, fSelf, downloads(fProgram)[i])]
Asked ==
    LET asks == SelectSeq(fRun.log, LAMBDA e : e.event = "fetching")
    IN  [i \in 1..Len(asks) |-> asks[i].url]

\* A downloads cache is configured and held the archive when fetch began.
CacheHeld == fOpts.downloads # None /\ FileName \in DOMAIN fRun.dir_before

\* The download from mirror i did not succeed.
MirrorFailed(i) == fNet[Mirrors[i]].kind # "ok"
AllMirrorsFailed == \A i \in 1..Len(Mirrors) : MirrorFailed(i)

\* C13: when a downloads cache is configured and holds the archive, no mirror
\* is asked and the file is reused; otherwise the mirrors are asked in the
\* order of the list, each at most once, up to the first one whose download
\* succeeds, and the run ends with a fatal error only after every mirror has
\* failed.
C13_MirrorOrder ==
    ReleaseFetched =>
        IF CacheHeld
        THEN /\ Asked = <<>>
             /\ fRun.log[1].event = "cached"
             /\ fRun.dir_before = fDir
        ELSE /\ \E k \in 1..Len(Mirrors) :
                    /\ Asked = SubSeq(Mirrors, 1, k)
                    /\ \A i \in 1..(k - 1) : MirrorFailed(i)
                    /\ k < Len(Mirrors) => ~MirrorFailed(k)
             /\ fRun.exit \in {"exit", "crash"} <=> AllMirrorsFailed
             /\ fRun.exit \in {"exit", "crash"} => Asked = Mirrors

\* The archive fetch has at archive_name when it comes to verify it: the one
\* the downloads cache held, or the one the first mirror that answered sent.
Answering == {i \in 1..Len(Mirrors) : fNet[Mirrors[i]].kind # "URLError"}
Archive ==
    IF CacheHeld THEN fRun.dir_before[FileName]
    ELSE IF Answering = {} THEN NoContents
    ELSE fNet[Mirrors[CHOOSE i \in Answering : \A j \in Answering : i <= j]].contents

ChecksumDiffers == sha256_of_file(Archive) # checksums(FileName)

\* The position of an event in what fetch and the build did (0 when absent).
FetchIndex(event) ==
    IF event \in FetchEvents
    THEN CHOOSE i \in DOMAIN fRun.log : fRun.log[i].event = event
    ELSE 0

\* C14: the archive of a release, downloaded or taken from the downloads
\* cache, is verified against the pinned SHA-256 before it is extracted.
\* Without --ignore-checksums an archive whose checksum differs is never
\* extracted, built or installed, and the run ends with the fatal error; with
\* --ignore-checksums there is a warning and the run goes on with the archive.
C14_ChecksumGate ==
    (ReleaseFetched /\ Archive # NoContents) =>
        /\ "verifying" \in FetchEvents
        /\ "extract" \in FetchEvents => FetchIndex("verifying") < FetchIndex("extract")
        /\ (ChecksumDiffers /\ ~fOpts.ignore_checksums) =>
              /\ fRun.exit = "checksum"
              /\ FetchEvents \cap {"extract", "compile", "install"} = {}
              /\ fRun.extracted = NoContents
              /\ ~fRun.built
        /\ (ChecksumDiffers /\ fOpts.ignore_checksums) =>
              /\ fRun.exit = "none"
              /\ "warning" \in FetchEvents
              /\ fRun.extracted = Archive
        /\ ~ChecksumDiffers =>
              /\ fRun.exit = "none"
              /\ "warning" \notin FetchEvents
              /\ fRun.extracted = Archive
        /\ fRun.built => FetchIndex("extract") < FetchIndex("compile")

\* C14 witness: the downloads cache held an archive that is not the released
\* one, --ignore-checksums was not given, and the run has ended with the
\* checksum error.
C14_Witness ==
    /\ ReleaseFetched
    /\ CacheHeld
    /\ ChecksumDiffers
    /\ ~fOpts.ignore_checksums
    /\ fRun.exit = "checksum"

-----------------------------------------------------------------------------
(* Claims about the patch engine *)

Applied == pResult # NotApplied

\* C7: when Patch.apply returns an error (a file is missing, too short or
\* differs from a context or remove line), every file is as it was before the
\* call, also the files of earlier file patches that verified; the missing file
\* is still missing.
C7_PatchAtomic ==
    (Applied /\ pResult.err # NoError) => pFiles = pFiles0

\* C7 witness: the first file verified and would have been changed by its file
\* patch, the second file's patch failed, and apply has returned the error.
C7_Witness ==
    /\ Applied
    /\ pResult.err = "source is different"
    /\ prepare_application(pFiles0, pPatch[1], <<>>).err = NoError
    /\ written(prepare_application(pFiles0, pPatch[1], <<>>).new_lines) # pFiles0["f1"]
    /\ pFiles = pFiles0

\* The texts of the hunk's context and remove lines, and of its context and
\* add lines.
Consumed(hunk) ==
    LET lines == SelectSeq(hunk.lines, LAMBDA l : l.tag \in {" ", "-"})
    IN  [i \in 1..Len(lines) |-> lines[i].rest]

Emitted(hunk) ==
    LET lines == SelectSeq(hunk.lines, LAMBDA l : l.tag \in {" ", "+"})
    IN  [i \in 1..Len(lines) |-> lines[i].rest]

\* Where a hunk begins when the lines before pos are used up.
BeginOf(hunk, pos) == IF hunk.start_line > pos THEN hunk.start_line ELSE pos

\* Every hunk finds its context and remove lines in the original, from pos on.
RECURSIVE Verifies(_, _, _)
Verifies(original, hunks, pos) ==
    hunks = <<>> \/
    LET at == BeginOf(Head(hunks), pos)
        consumed == Consumed(Head(hunks))
    IN  /\ at + Len(consumed) - 1 <= Len(original)
        /\ SubSeq(original, at, at + Len(consumed) - 1) = consumed
        /\ Verifies(original, Tail(hunks), at + Len(consumed))

\* The original from pos on with the hunks applied.
RECURSIVE Rewritten(_, _, _)
Rewritten(original, hunks, pos) ==
    IF hunks = <<>> THEN SubSeq(original, pos, Len(original))
    ELSE LET at == BeginOf(Head(hunks), pos)
         IN  SubSeq(original, pos, at - 1) \o Emitted(Head(hunks))
                \o Rewritten(original, Tail(hunks), at + Len(Consumed(Head(hunks))))

\* The texts of the lines of a file.
Texts(content) == [i \in 1..Len(content) |-> content[i].text]

\* C24: when the file is there and every hunk verifies, the file is
\* rewritten to the original lines before the hunk's start line, the hunk's
\* context and add lines in place of its context and remove lines, and the
\* original lines that remain, every line ended by "\n", the last one too;
\* otherwise (a hunk reaches past the end of the file, a line differs, the
\* file is missing) apply returns an error and the file is as it was.
C24_PatchResult ==
    Applied =>
        IF "f1" \in DOMAIN pFiles0 /\ Verifies(Texts(pFiles0["f1"]), pPatch[1].hunks, 1)
        THEN /\ pResult.err = NoError
             /\ Texts(pFiles["f1"]) = Rewritten(Texts(pFiles0["f1"]), pPatch[1].hunks, 1)
             /\ \A i \in DOMAIN pFiles["f1"] : pFiles["f1"][i].eol = "\n"
        ELSE /\ pResult.err # NoError
             /\ pFiles = pFiles0

\* C24 witness: a file of two lines with DOS line endings and without a line
\* ending after the last line has got its second line replaced by a hunk,
\* and is written with "\n" after every line.
C24_Witness ==
    /\ Applied
    /\ pResult.err = NoError
    /\ Len(pPatch) = 1
    /\ pFiles0["f1"] = <<[text |-> "a", eol |-> "\r\n"], [text |-> "b", eol |-> ""]>>
    /\ pPatch[1].hunks = <<[start_line |-> 2,
                            lines |-> <<[tag |-> "-", rest |-> "b"],
                                        [tag |-> "+", rest |-> "a"]>>]>>
    /\ pFiles["f1"] = <<[text |-> "a", eol |-> "\n"], [text |-> "a", eol |-> "\n"]>>

-----------------------------------------------------------------------------
(* Claims about the runs of main() *)

\* What the block of a package did in the current run.
Ran(n) == progs[n].result # "none"
Built(n) == Ran(n) /\ progs[n].self.source # "exit"
Events(n) == {progs[n].events[i] : i \in DOMAIN progs[n].events}
Location == cmdline.location
SlotOf(n) == IF n = "luarocks" THEN "luarocks" ELSE "lua"
ManifestEntry(file, n) == IF file.kind = "object" THEN Get(file.data, n, NoEntry) ELSE NoEntry

\* The package was installed by the run before, from a release or from a git
\* reference, and the current run is a repetition of that run without
\* --ignore-installed that has executed the package's block and, for a git
\* reference, has found the same commit.
Repeated(n) ==
    /\ nruns >= 2
    /\ prev.opts = cmdline
    /\ ~cmdline.ignore_installed
    /\ prev.progs[n].result = "installed"
    /\ prev.progs[n].self.source \in {"release", "git"}
    /\ Built(n)
    /\ progs[n].self.commit = prev.progs[n].self.commit

\* C1: a package that a run has installed from a release, or from a git
\* reference whose commit has not moved, is reported as already installed by
\* an immediately repeated identical run without --ignore-installed: nothing
\* is fetched, compiled or installed for it, its manifest entry is as it was,
\* and when this holds for every package of the run the manifest file is as it
\* was when the run started.
C1_Idempotent ==
    \A n \in PackageNames :
        Repeated(n) =>
            /\ progs[n].result = "skipped"
            /\ progs[n].events = <<"already installed">>
            /\ ManifestEntry(manifest[Location], n) = ManifestEntry(startManifest, n)
            /\ (\A m \in PackageNames : Ran(m) => Repeated(m))
                  => manifest[Location] = startManifest

\* C1 witness: the second of two identical runs for Lua and LuaRocks has ended
\* with "Done." after skipping both.
C1_Witness ==
    /\ Repeated("lua")
    /\ Repeated("luarocks")
    /\ status = "done"
    /\ progs["lua"].result = "skipped"
    /\ progs["luarocks"].result = "skipped"
    /\ manifest[Location] = startManifest

\* The condition under which update_identifiers skips, read from the run: no
\* --ignore-installed, no local source, an entry in the loaded manifest, and
\* equal hashes of the new and the stored identifiers.
SkipCondition(n) ==
    /\ ~cmdline.ignore_installed
    /\ progs[n].self.source # "local"
    /\ progs[n].entry_before # NoEntry
    /\ hash_identifiers(progs[n].self.identifiers) = hash_identifiers(progs[n].entry_before)

\* C2: update_identifiers skips a package if and only if the skip condition
\* holds; a skip builds nothing, installs nothing and leaves the entry in
\* memory as it was; otherwise the build is begun, and when update_identifiers
\* returns the package has been built (or taken from the build cache) and
\* installed and its entry is the new identifiers.
C2_SkipDecision ==
    \A n \in PackageNames :
        Built(n) =>
            /\ progs[n].result = "skipped" <=> SkipCondition(n)
            /\ progs[n].result = "skipped" =>
                  /\ progs[n].events = <<"already installed">>
                  /\ Get(allIdentifiers, n, NoEntry) = progs[n].entry_before
            /\ progs[n].result = "installed" =>
                  /\ Events(n) \cap {"compile", "cached"} # {}
                  /\ "install" \in Events(n)
                  /\ installed[Location][SlotOf(n)] # NoTree
                  /\ allIdentifiers[n] = progs[n].self.identifiers
            /\ progs[n].result = "exit" =>
                  /\ Events(n) \cap {"compile failed", "no lua"} # {}
                  /\ "install" \notin Events(n)

\* C2 witness: with --ignore-installed a package whose stored entry has the
\* hash of the new identifiers has been built and installed again.
C2_Witness ==
    /\ Built("lua")
    /\ cmdline.ignore_installed
    /\ progs["lua"].entry_before # NoEntry
    /\ hash_identifiers(progs["lua"].self.identifiers)
          = hash_identifiers(progs["lua"].entry_before)
    /\ progs["lua"].result = "installed"

\* The block of an interpreter has reached the build step with a build cache
\* configured and a source that is no local directory, and an earlier run has
\* compiled the same identifiers with a build cache configured.
BuiltBefore(n) ==
    /\ Built(n)
    /\ progs[n].result # "skipped"
    /\ cmdline.builds # None
    /\ progs[n].self.source # "local"
    /\ \E b \in built : b.run < nruns /\ b.identifiers = progs[n].self.identifiers

\* C3: with a build cache configured and a source that is no local directory,
\* a build of Lua or LuaJIT whose identifiers an earlier run has compiled
\* reports "(cached)" and fetches, patches and compiles nothing before the
\* install; the directory it finds is the one named by the hash of the
\* identifiers.
C3_BuildCacheHit ==
    \A n \in {"lua", "LuaJIT"} :
        BuiltBefore(n) =>
            /\ progs[n].events = <<"cached", "install", "update">>
            /\ hash_identifiers(progs[n].self.identifiers) \in DOMAIN buildCache
            /\ installed[Location]["lua"]
                  = buildCache[hash_identifiers(progs[n].self.identifiers)]

\* C3 witness: Lua from a git reference has been installed from the build
\* cache that an earlier run has filled.
C3_Witness ==
    /\ BuiltBefore("lua")
    /\ progs["lua"].self.source = "git"
    /\ progs["lua"].result = "installed"
    /\ "cached" \in Events("lua")

\* C5: whenever a package is skipped or taken from the build cache, what is
\* installed is what a build from the sources for this request would give.
C5_ReuseSound ==
    \A n \in PackageNames :
        (Built(n) /\ (progs[n].result = "skipped" \/ "cached" \in Events(n)))
            => installed[Location][SlotOf(n)] = progs[n].fresh

\* The manifest file is missing, is no JSON, holds a JSON value that is no
\* object, or holds an object whose version is not manifest_version.
Untrusted(file) ==
    \/ file.kind \in {"missing", "not json", "no object"}
    \/ /\ file.kind = "object"
       /\ ("version" \notin DOMAIN file.data \/ file.data["version"] # manifest_version)

\* C6: a run that finds an untrusted manifest file does not crash, and skips
\* no package it reaches.
C6_ManifestGate ==
    (nruns > 0 /\ Untrusted(startManifest)) =>
        /\ status # "crashed"
        /\ \A n \in PackageNames : Ran(n) => progs[n].result # "skipped"

PatchEvents(n) == SelectSeq(progs[n].events, LAMBDA e : e \in {"patch ok", "patch fail"})

Loaded == get_installed_identifiers(startManifest).identifiers

\* The manifest loaded at the start, or an install of Lua or LuaJIT completed
\* earlier in the run, records an interpreter.
InterpreterRecorded ==
    \/ \E n \in {"lua", "LuaJIT"} : n \in DOMAIN Loaded
    \/ \E n \in {"lua", "LuaJIT"} : progs[n].result = "installed"

\* C15: the build of LuaRocks goes on only if the manifest loaded at the start
\* or an install of Lua or LuaJIT completed earlier in the run records an
\* interpreter; otherwise the run ends with the fatal error before anything of
\* LuaRocks is fetched or compiled, and the manifest gets no luarocks entry.
C15_LuaRocksNeedsLua ==
    (Built("luarocks") /\ progs["luarocks"].result # "skipped") =>
        /\ InterpreterRecorded <=> "no lua" \notin Events("luarocks")
        /\ ~InterpreterRecorded =>
              /\ progs["luarocks"].result = "exit"
              /\ progs["luarocks"].events = <<"no lua">>
              /\ status = "fatal"
              /\ installed[Location]["luarocks"] = startDisk.installed["luarocks"]
              /\ ManifestEntry(manifest[Location], "luarocks") = NoEntry
              /\ "luarocks" \notin DOMAIN allIdentifiers

\* C15 witness: LuaRocks was asked for after LuaJIT has been installed in the
\* same run into a location without a manifest, and has been built.
C15_Witness ==
    /\ Built("luarocks")
    /\ DOMAIN Loaded = {}
    /\ progs["LuaJIT"].result = "installed"
    /\ progs["luarocks"].result = "installed"

\* The run has ended because of a rejected command line, a bad version or a
\* path that does not exist, or LuaRocks without an interpreter.
UserError ==
    \/ status = "usage"
    \/ /\ status = "fatal"
       /\ \E n \in PackageNames :
             /\ Ran(n)
             /\ progs[n].self.source = "exit" \/ progs[n].events = <<"no lua">>

\* C16: a run that ends because of an error in the user's input has written
\* nothing: the manifest file, the install location and the build cache are
\* as they were when the run started, also when the package in error is the
\* second one of the run.
C16_NoPartialState ==
    UserError =>
        /\ manifest[Location] = startManifest
        /\ installed[Location] = startDisk.installed
        /\ buildCache = startDisk.buildCache

\* The packages the run has built (or taken from the build cache) and installed.
Installed == {n \in PackageNames : progs[n].result = "installed"}

\* A run that installs has started and has not crashed while loading.
InstallRun == nruns > 0 /\ status \in {"running", "fatal", "done"}

C18_ShowReadOnly ==
    (nruns > 0 /\ cmdline.show) =>
        /\ \A n \in PackageNames : ~Ran(n)
        /\ manifestIO.writes = 0
        /\ manifest[Location] = startManifest
        /\ installed[Location] = startDisk.installed
        /\ buildCache = startDisk.buildCache
        /\ IF cmdline.lua # None \/ cmdline.luajit # None \/ cmdline.luarocks # None
           THEN status = "usage" /\ manifestIO.reads = 0
           ELSE status = "shown"

\* The place of a step in the order of the steps of a package.
Rank(e) ==
    CASE e = "fetch" -> 1
      [] e = "patch_redefines" -> 2
      [] e \in {"patch ok", "patch fail"} -> 3
      [] e \in {"compile", "compile failed", "cached"} -> 4
      [] e = "cache store" -> 5
      [] e = "install" -> 6
      [] e = "update" -> 7
      [] OTHER -> 0

\* C20: the steps of a package run in the order fetch, rewrite and patch of
\* the sources, compile, build-cache store, install, update of the manifest in
\* memory, save of the manifest, each at most once (one step per named patch);
\* the identifiers of a package get into the manifest only after its build
\* and its install in this run; and the block of LuaRocks begins only when the
\* interpreter's block has ended with the interpreter installed or skipped.
C20_PhaseOrder ==
    \A n \in PackageNames :
        Built(n) =>
            /\ \A i, j \in DOMAIN progs[n].events :
                  i < j =>
                     \/ Rank(progs[n].events[i]) < Rank(progs[n].events[j])
                     \/ Rank(progs[n].events[i]) = 3 /\ Rank(progs[n].events[j]) = 3
            /\ "update" \in Events(n) <=> progs[n].result = "installed"
            /\ progs[n].result = "installed" =>
                  /\ progs[n].events[Len(progs[n].events)] = "update"
                  /\ progs[n].events[Len(progs[n].events) - 1] = "install"
                  /\ Events(n) \cap {"compile", "cached"} # {}
                  /\ ManifestEntry(manifest[Location], n) = progs[n].self.identifiers
            /\ progs[n].result # "installed" =>
                  ManifestEntry(manifest[Location], n) \in
                      {NoEntry, ManifestEntry(startManifest, n)}
            /\ n = "luarocks" =>
                  /\ cmdline.lua # None => progs["lua"].result \in {"installed", "skipped"}
                  /\ cmdline.luajit # None
                        => progs["LuaJIT"].result \in {"installed", "skipped"}

\* C20 witness: Lua has been fetched, patched, compiled, stored in the build
\* cache and installed, then LuaRocks has been built and installed, and the
\* run has ended.
C20_Witness ==
    /\ status = "done"
    /\ Built("lua")
    /\ progs["lua"].events = <<"fetch", "patch_redefines", "patch ok", "compile",
                               "cache store", "install", "update">>
    /\ Built("luarocks")
    /\ progs["luarocks"].events = <<"fetch", "compile", "install", "update">>

\* The named patches of a version of Lua, as the table lists them.
ListedPatches(major, minor) ==
    CASE major = <<"5",".","1">> /\ minor = <<"5">> -> <<"reader">>
      [] major = <<"5",".","3">> /\ minor = <<"2">> -> <<"metatable", "label", "gmatch">>
      [] major = <<"5",".","3">> /\ minor = <<"3">> -> <<"forloop", "osdate", "constants">>
      [] OTHER -> <<>>

\* The files after the patches named have been tried one after the other.
RECURSIVE Patched(_, _)
Patched(files, names) ==
    IF names = <<>> THEN files
    ELSE Patched(Patch_apply(files, all_patches[Head(names)]).files, Tail(names))

\* The block of the package has compiled sources in this run.
FromSources(n) == Built(n) /\ "compile" \in Events(n)

NewEntries == DOMAIN buildCache \ DOMAIN startDisk.buildCache

\* The block of the package has gone through fetch, rewrite and compile.
Compiled(n) ==
    /\ Len(progs[n].events) >= 3
    /\ progs[n].events[1] = "fetch"
    /\ progs[n].events[2] = "patch_redefines"
    /\ "compile" \in Events(n)

\* C21: a directory is added to the build cache only by a run with --builds
\* whose source is no local directory and whose fetch, rewrite of the sources
\* and compile have succeeded, under the hash of the identifiers; a run that
\* fails before the compile has returned adds none, a build from a local
\* directory neither takes a build from the cache nor stores one, and the
\* directories the cache held are left as they were.
C21_CacheEligibility ==
    InstallRun =>
        /\ \A k \in DOMAIN startDisk.buildCache :
              k \in DOMAIN buildCache /\ buildCache[k] = startDisk.buildCache[k]
        /\ NewEntries # {} =>
              \E n \in {"lua", "LuaJIT"} :
                 /\ Built(n)
                 /\ cmdline.builds # None
                 /\ progs[n].self.source # "local"
                 /\ Compiled(n)
                 /\ NewEntries = {hash_identifiers(progs[n].self.identifiers)}
                 /\ buildCache[hash_identifiers(progs[n].self.identifiers)]
                       = progs[n].fresh
        /\ \A n \in PackageNames :
              Built(n) =>
                 /\ "cache store" \in Events(n) <=>
                       /\ n # "luarocks"
                       /\ cmdline.builds # None
                       /\ progs[n].self.source # "local"
                       /\ Compiled(n)
                 /\ "cached" \in Events(n) =>
                       (cmdline.builds # None /\ progs[n].self.source # "local")
                 /\ "compile failed" \in Events(n) =>
                       hash_identifiers(progs[n].self.identifiers) \notin DOMAIN buildCache

\* C21 witness: with a build cache that an earlier run has filled, Lua has
\* been built from a local directory and installed, and the cache has got no
\* new directory.
C21_Witness ==
    /\ InstallRun
    /\ cmdline.builds # None
    /\ DOMAIN startDisk.buildCache # {}
    /\ Built("lua")
    /\ progs["lua"].self.source = "local"
    /\ progs["lua"].result = "installed"
    /\ NewEntries = {}

-----------------------------------------------------------------------------
(* Claims about the identity *)

ContributingOptions == {"target", "compat", "c flags", "location"}

\* The contributing options in which the identifiers of the two requests differ.
DifferingOptions ==
    {k \in ContributingOptions : iIds[1].identifiers[k] # iIds[2].identifiers[k]}

\* C4: two requests for the same program that differ in exactly one of target,
\* compatibility mode, extra compiler flags and install location have
\* different hashes.
C4_IdentitySensitive ==
    (iIds # <<>> /\ Cardinality(DifferingOptions) = 1) => iIds[1].hash # iIds[2].hash

\* The two identifiers hold the same values for the names the hash reads, a
\* missing name counting as "".
SameHashedValues(a, b) == \A n \in HashedNames : Get(a, n, <<>>) = Get(b, n, <<>>)

\* C19: the hash depends only on the values of name, source, version, repo,
\* commit, location, target, compat, c flags, patched and readline, read in
\* this order: identifiers with the same values for them have the same hash
\* whatever the order of the dict, whatever other fields they hold, and
\* whether a field without value is missing or empty; identifiers loaded
\* from the manifest are equal to the ones saved and have their hash.
C19_IdentityDeterministic ==
    /\ iIds # <<>> =>
          /\ \A r \in 1..2 :
                iIds[r].hash =
                    join_dash([i \in 1..11 |->
                        escape_path(Get(iIds[r].identifiers,
                            <<"name", "source", "version", "repo", "commit", "location",
                              "target", "compat", "c flags", "patched", "readline">>[i],
                            <<>>))])
          /\ SameHashedValues(iIds[1].identifiers, iIds[2].identifiers)
                => iIds[1].hash = iIds[2].hash
    /\ iReload # NotReloaded =>
          /\ SameHashedValues(iReload.saved, iIds[1].identifiers)
          /\ hash_identifiers(iReload.saved) = iIds[1].hash
          /\ iReload.done =>
                /\ iReload.loaded = iReload.saved
                /\ hash_identifiers(iReload.loaded) = iIds[1].hash

\* C19 witness: identifiers that hold an empty repo and commit, which the
\* identifiers of the request did not have, have been saved in the reverse
\* order and loaded again.
C19_Witness ==
    /\ iReload # NotReloaded
    /\ iReload.done
    /\ iReload.variant = "empty for missing"
    /\ "repo" \notin DOMAIN iIds[1].identifiers
    /\ iReload.saved["repo"] = <<>>
    /\ iReload.text[1].name = <<"\"", "patched", "\"">>
    /\ iReload.loaded # iIds[1].identifiers

(***************************************************************************)
(* Claims about the scratch directory of a run                             *)
(***************************************************************************)

\* The run in progress or last ended got past the checks of the command line
\* and is not a --show run.
PastValidation == nruns > 0 /\ ~usage_error(cmdline) /\ ~cmdline.show

\* The scratch directory in every state of a run.
TempLifecycle ==
    /\ ~PastValidation => tempDir = NoTemp
    /\ PastValidation =>
          /\ tempDir.created = 1
          /\ tempDir.removed = (IF pc = "idle" /\ status = "done" THEN 1 ELSE 0)
          /\ tempDir.exists = (tempDir.removed = 0)
          /\ tempDir.removed = 1 => tempDir.holds = {}
          /\ tempDir.holds =
                IF tempDir.exists
                THEN {n \in PackageNames :
                         /\ progs[n].result # "none"
                         /\ "fetch" \in {progs[n].events[i] :
                                            i \in DOMAIN progs[n].events}}
                ELSE {}

PcRank(p) ==
    CASE p = "lua" -> 1
      [] p = "luajit" -> 2
      [] p = "luarocks" -> 3
      [] p = "end" -> 4
      [] OTHER -> 5

\* One step inside a run: the position moves forward in the text of main(),
\* so that no block is entered twice; a package ends installed, skipped as
\* already installed, or in an exit, and an exit ends the run at once with a
\* fatal status and leaves the packages after it untouched.
NoRetry ==
    (pc # "idle" /\ nruns' = nruns) =>
        /\ PcRank(pc') > PcRank(pc)
        /\ progs'[pc].result \in {"installed", "skipped", "exit"}
        /\ \A n \in PackageNames \ {pc} : progs'[n] = progs[n]
        /\ progs'[pc].result = "exit" <=> (pc' = "idle" /\ status' = "fatal")
        /\ progs'[pc].result # "exit" =>
              /\ pc' = after_block(cmdline, pc)
              /\ status' = "running"

RootDirs == {"bin", "include", "lib"}

\* C30: at the end of every run, one ended by an error included, the identity
\* the manifest records for the interpreter is the identity of the install
\* that last wrote each directory of the install root, and a request skipped
\* as already installed finds the files of the identity it asked for.
C30_ManifestMatchesRoot ==
    /\ "lua" \in DOMAIN nManifest =>
          \A d \in RootDirs : nRoot[d] = nManifest["lua"]
    /\ nRun.result = "skipped" =>
          \A d \in RootDirs : nRoot[d] = nRun.request

(***************************************************************************)
(* Claims about two runs that overlap                                      *)
(***************************************************************************)

Ended(p) == xProc[p].pc \in {"done", "skipped", "exit", "crashed"}

\* The name under which run p recorded its package.
Recorded(p) == name(xProc[p].request.program)

\* C27: each of two runs on one install root reads the manifest once, at its
\* start, and writes it at most once, and the file always holds the whole dict
\* of the run that wrote last, whatever the other run had written; two runs
\* that both found no directory for the same build-cache name have both
\* compiled, and both copy to that name: the copy of the first makes the
\* directory, the copy of the second finds it there and raises.
C27_LastWriterWins ==
    /\ \A p \in Procs :
          /\ xProc[p].reads = (IF xProc[p].pc = "start" THEN 0 ELSE 1)
          /\ xProc[p].writes = (IF xProc[p].pc = "done" THEN 1 ELSE 0)
          /\ xManifest.writer = p =>
                /\ xProc[p].pc = "done"
                /\ xManifest.data = xProc[p].mem
    /\ (xManifest.writer = 0) = (\A p \in Procs : xProc[p].writes = 0)
    /\ \A p, q \in Procs :
          (/\ p # q
           /\ xProc[p].missed /\ xProc[q].missed
           /\ xProc[p].self.identifiers = xProc[q].self.identifiers
           /\ xProc[p].pc \notin {"update", "make"}
           /\ xProc[q].pc \notin {"update", "make"})
          => \/ xProc[p].stored /\ ~xProc[q].stored /\ xProc[q].pc = "crashed"
             \/ xProc[q].stored /\ ~xProc[p].stored /\ xProc[p].pc = "crashed"

\* C27 witness: with Lua 5.1 installed, a run installing Lua 5.3 and a run
\* installing LuaRocks have both ended with "Done."; the LuaRocks run wrote
\* last, and the manifest records Lua 5.1 again: the entry of the other run
\* is lost.
C27_Witness ==
    /\ \A p \in Procs : xProc[p].pc = "done" /\ xProc[p].writes = 1
    /\ xProc[1].request.program = "RioLua"
    /\ xProc[1].request.opts.lua = str_5_3
    /\ xProc[2].request.program = "LuaRocks"
    /\ xManifest.writer = 2
    /\ "luarocks" \in DOMAIN xManifest.data
    /\ xManifest.data["lua"] = RequestSelf(Lua51).identifiers
    /\ xManifest.data["lua"] # xProc[1].self.identifiers
    /\ xProc[1].mem["lua"] = xProc[1].self.identifiers

(***************************************************************************)
(* Claims about the interpreter entries of the manifest                    *)
(***************************************************************************)

\* The dict in a manifest file, empty when the file holds none.
DictOf(file) == IF file.kind = "object" THEN file.data ELSE <<>>

\* The interpreters a dict records.
Interpreters(d) == {"lua", "LuaJIT"} \cap DOMAIN d

\* C31: the manifest file of a location never records both "lua" and
\* "LuaJIT"; a write by the block that installed one of them records that one
\* and not the other, and a write by a run asked for LuaRocks only records the
\* interpreter entry the file held when the run started, unchanged.
C31_OneInterpreter ==
    [][/\ \A l \in MainLocations :
             Cardinality(Interpreters(DictOf(manifest'[l]))) <= 1
       /\ manifest' # manifest =>
             /\ pc = "lua" =>
                   Interpreters(DictOf(manifest'[cmdline.location])) = {"lua"}
             /\ pc = "luajit" =>
                   Interpreters(DictOf(manifest'[cmdline.location])) = {"LuaJIT"}
             /\ (pc = "luarocks" /\ cmdline.lua = None /\ cmdline.luajit = None) =>
                   /\ Interpreters(DictOf(manifest'[cmdline.location]))
                         = Interpreters(DictOf(startManifest))
                   /\ \A n \in Interpreters(DictOf(startManifest)) :
                         DictOf(manifest'[cmdline.location])[n]
                             = DictOf(startManifest)[n]]_vars

\* C31 witness: the run before installed Lua, this run installed LuaJIT, and
\* the manifest records LuaJIT and no longer Lua.
C31_Witness ==
    /\ nruns = 2
    /\ prev.status = "done"
    /\ prev.progs["lua"].result = "installed"
    /\ prev.opts.location = cmdline.location
    /\ progs["LuaJIT"].result = "installed"
    /\ "lua" \in DOMAIN DictOf(startManifest)
    /\ Interpreters(DictOf(manifest[cmdline.location])) = {"LuaJIT"}

(***************************************************************************)
(* Claims about what a build does to the build cache                       *)
(***************************************************************************)

\* The events of the block of package n in the state after the step.
EventsAfter(n) == {progs'[n].events[i] : i \in DOMAIN progs'[n].events}

FailedFresh(i) ==
    /\ fPast[i].exit = "checksum"
    /\ fPast[i].opts.downloads # None
    /\ FileName \notin DOMAIN fPast[i].dir_before

\* What a run that finds the archive in the cache and stops on its checksum
\* reports: "(cached)" and the verification, and no mirror.
StoppedOnCached(exit, log) ==
    /\ exit = "checksum"
    /\ log = <<Did("cached", <<>>), Did("verifying", <<>>)>>

\* C33: a run that downloaded an archive into the downloads cache and ended
\* on its checksum left the file there; the file stays as it is through every
\* later run, and each later run without --ignore-checksums reports
\* "(cached)", asks no mirror even when the mirrors have recovered, and ends
\* on the same mismatch.
C33_BadArchiveStays ==
    \A i \in 1..Len(fPast) :
       FailedFresh(i) =>
          /\ FileName \in DOMAIN fPast[i].dir
          /\ sha256_of_file(fPast[i].dir[FileName]) # checksums(FileName)
          /\ FileName \in DOMAIN fDir
          /\ fDir[FileName] = fPast[i].dir[FileName]
          /\ \A j \in (i + 1)..Len(fPast) :
                /\ fPast[j].dir[FileName] = fPast[i].dir[FileName]
                /\ ~fPast[j].opts.ignore_checksums =>
                      StoppedOnCached(fPast[j].exit, fPast[j].log)
          /\ (fRun # NotStarted /\ ~fOpts.ignore_checksums) =>
                StoppedOnCached(fRun.exit, fRun.log)

\* C33 witness: the first run downloaded a bad archive and ended on its
\* checksum; the mirrors have recovered, and the second and the third run
\* have both ended on the cached file.
C33_Witness ==
    /\ Len(fPast) = 2
    /\ FailedFresh(1)
    /\ fNet = Healthy(fProgram, fSelf)
    /\ ~fPast[2].opts.ignore_checksums
    /\ StoppedOnCached(fPast[2].exit, fPast[2].log)
    /\ fRun # NotStarted
    /\ ~fOpts.ignore_checksums
    /\ StoppedOnCached(fRun.exit, fRun.log)

(***************************************************************************)
(* C34: the version tables are closed.  For Lua, LuaJIT and LuaRocks every *)
(* alias target is a supported version or a git specifier containing "@",  *)
(* so a request taken from the tables resolves to a release or to git and  *)
(* never to a local path or an error; every supported version has a pinned *)
(* checksum under exactly the file name the fetch step computes for it     *)
(* (LuaJIT 2.0.1 under "2.0.1-fixed", LuaRocks under both the tar.gz and   *)
(* the win32 zip name), the tables hold no other name, and the lookup of a *)
(* supported release never raises KeyError.                                *)
(***************************************************************************)
ArchiveNames(program) ==
    { get_file_name(program, [version |-> v, win32_zip |-> w]) :
        v \in versions(program), w \in win32_zips(program) }

C34_TablesClosed ==
    /\ \A program \in Programs :
         /\ \A alias \in DOMAIN translations(program) :
              \/ translations(program)[alias] \in versions(program)
              \/ Contains(translations(program)[alias], "@")
         /\ ArchiveNames(program) = checksum_keys(program)
         /\ Cardinality(ArchiveNames(program)) =
              Cardinality(versions(program)) * Cardinality(win32_zips(program))
    /\ rSelf # NotConstructed =>
         /\ rSelf.source \in {"release", "git"}
         /\ rSelf.source = "release" => rSelf.version \in versions(rProgram)
         /\ rSelf.source = "git" => Contains(translate(rProgram, rVersion), "@")
    /\ (rSelf # NotConstructed /\ "checksum" \in DOMAIN rSelf) =>
         /\ rSelf.checksum = "pinned"
         /\ rSelf.file_name \in checksum_keys(rProgram)

C34_Witness ==
    /\ rProgram = "LuaJIT"
    /\ rVersion = <<"2",".","0",".","1">>
    /\ rSelf # NotConstructed
    /\ "checksum" \in DOMAIN rSelf
    /\ rSelf.file_name =
         <<"L","u","a","J","I","T","-","2",".","0",".","1","-","f","i","x","e","d",
           ".","t","a","r",".","g","z">>
    /\ rSelf.checksum = "pinned"

====
